---- MODULE Spec2Model ----
(***************************************************************************)
(* Prompt_Factory: a model of the task manager (src/utils/task_manager.py), *)
(* of the enhanced command line's use of it (src/enhanced_cli.py), of the   *)
(* prompt processor (src/core/prompt_processor.py) and of the model,        *)
(* configuration and template managers (src/core).                          *)
(*                                                                          *)
(* These specifications share the module:                                   *)
(*   SpecTask      the TaskManager operations that create, load and end     *)
(*   SpecProgress  one task's calls, with the clock                         *)
(*   SpecVendor    one vendor call of the prompt processor                  *)
(*   SpecCli       runs of the enhanced command line, one after another     *)
(*   SpecContent   process_content, from the template to the vendor call    *)
(*   SpecDirectory process_directory over one walk                          *)
(*   SpecFile      process_file on one path                                 *)
(*   SpecModels    ModelManager.get_models and the cache files              *)
(*   SpecConfig    ConfigManager on one configuration file                  *)
(*   SpecTemplate  TemplateManager on one templates directory               *)
(*   SpecRoute     one request to POST /api/prompts/process                 *)
(*   SpecEnviron   one run of the command line, in any environment          *)
(*   SpecAnthropic AnthropicProvider.fetch_models on a listing response     *)
(*   SpecParse     ModelManager.parse_model_id on any identifier            *)
(*   SpecProcessor PromptProcessor and the template it works with           *)
(*   SpecRun       the command line on one directory, run after run         *)
(*   SpecCheckpoint one task's calls and the loads of fresh managers         *)
(*   SpecConcurrent two requests that write the configuration, interleaved   *)
(*   SpecServer    the server's requests, one after another                  *)
(*   SpecExtract   the messages process_content takes from a template        *)
(* Each holds the variables of the other parts at their initial values.     *)
(***************************************************************************)
EXTENDS Integers, Sequences, FiniteSets, TLC

VARIABLES
    now,            \* time.time(), in seconds
    current_task,   \* TaskManager.current_task: <<>> (None) or <<TaskState>>
    checkpoints,    \* files of checkpoint_dir, most recently modified first
    next_id,        \* number of task ids create_task has generated
    last_call,      \* the last TaskManager call: its name, return value, effect
    provider,       \* the vendor call: openai, openrouter or deepseek
    max_retries,    \* PromptProcessor.max_retries
    retry_interval, \* PromptProcessor.retry_interval
    v_pc,           \* the vendor call: "loop" (at its while) or "done"
    current_retry,  \* the vendor call's current_retry
    requests,       \* requests.post calls the vendor call has made
    sleeps,         \* time.sleep calls the vendor call has made, in order
    response,       \* what the last requests.post gave
    v_result,       \* how the vendor call ended
    cli_pc,         \* enhanced_cli: "shell" (no process) or the line main is at
    args,           \* enhanced_cli: the run's command line
    config,         \* enhanced_cli: config["input_path"], <<>> before it is known
    unfinished_task,\* process_files: whether an unfinished task is continued
    run_failed,     \* process_directory: stats["failed"] of the run
    exit_code,      \* the last run's exit code, <<>> while it runs
    message,        \* the last line main or process_files printed
    shell_env,      \* the environment of the shell that starts the runs
    environ,        \* os.environ of the run, as the shell sees it at exit
    model,          \* PromptProcessor.model, a sequence of characters
    c_pc,           \* process_content: "start", "vendor" (in a vendor call), "done"
    calls,          \* the vendor calls _call_model_api has made, in order
    c_result,       \* how process_content ended
    d_exists,       \* process_directory: whether directory_path is a directory
    d_files,        \* the files os.walk yields, in order
    file_extensions,\* process_directory: the file_extensions argument
    callbacks,      \* process_directory: whether callbacks are given
    d_next,         \* the walk: the index of the next file, 0 before the walk
    stats,          \* process_directory: stats
    visits,         \* per visited file, "skipped" or what happened to it
    cb_calls,       \* the callback invocations, in order
    d_status,       \* process_directory: "called", "walking", "returned", "raised"
    f_disk,         \* process_file: the file at file_path, <<>> or <<its text>>
    f_before,       \* the file when process_file was called
    f_pc,           \* process_file: the statement it is at, "idle" outside a call
    f_local,        \* process_file: its locals content and result
    f_result,       \* process_file: "none", "True", "False" or "ProcessingError"
    current_time,   \* ModelManager: time.time(), in seconds
    clock_steps,    \* steps the ModelManager clock has made
    cache,          \* per registered provider, its cache file
    get_calls,      \* get_models calls made so far
    mm_call,        \* the get_models call: its arguments, position and outcome
    last_fetch,     \* the last successful fetch_models: whose, when, what
    cm_file,        \* the file at ConfigManager.config_path
    cm_alive,       \* whether a ConfigManager has been constructed
    cm_config,      \* ConfigManager.config, a mapping of key paths
    cm_default,     \* self.default_config of the manager
    cm_shared,      \* whether config["parameters"] is default_config["parameters"]
    updates,        \* update_config calls made so far
    cm_call,        \* the last ConfigManager call: its arguments and outcome
    t_files,        \* the .txt files of templates_dir: per name, <<>> or <<its text>>
    templates_cache,\* TemplateManager._templates_cache: per name, <<>> or <<text>>
    active_template,\* TemplateManager.active_template, <<>> for None
    t_call,         \* the last TemplateManager call: its argument and return value
    last_loaded,    \* the last load_template that returned a text: name and text
    r_data,         \* POST /api/prompts/process: request.get_json(), <<>> without a body
    r_env,          \* the request's surroundings: configuration, templates, vendor
    r_response,     \* the response: its code and envelope, code 0 before any request
    a_response,     \* AnthropicProvider.fetch_models: what requests.get gave, <<>> before
    a_models,       \* what fetch_models returned: "none" before, <<>> for None, or <<list>>
    p_call,         \* ModelManager.parse_model_id: the last call, its argument and the pair returned
    system_template,\* PromptProcessor.system_template, <<>> while there is no processor
    pp_call,        \* the last PromptProcessor call about templates: its argument and outcome
    run_pc,         \* process_files on a directory: "shell" (no process) or "directory"
    run_task,       \* the task of the directory runs: <<>> or <<its status and stats>>
    run_continued,  \* process_files: whether the run continues an unfinished task
    run_count,      \* directory runs started so far
    sv_file,        \* the file at config_path of the server
    sv_heap,        \* the mappings the server holds: object -> configuration
    sv_config,      \* config_routes.config_manager.config: the object it refers to
    sv_prompt_config,\* prompt_routes.config_manager.config
    sv_req,         \* the request each server thread handles and its position
    sv_writes,      \* writes of the file so far
    sv_overlap,     \* whether a request began while another was being handled
    sv_served,      \* requests answered so far
    sv_process,     \* the last POST /process: what it was given and what it used
    x_call          \* the last extraction: the template, the content, the messages

taskVars == <<now, current_task, checkpoints, next_id, last_call>>

vendorVars == <<provider, max_retries, retry_interval, v_pc, current_retry,
                requests, sleeps, response, v_result>>

cliVars == <<cli_pc, args, config, unfinished_task, run_failed, exit_code,
             message, shell_env, environ>>

contentVars == <<model, c_pc, calls, c_result>>

dirVars == <<d_exists, d_files, file_extensions, callbacks, d_next, stats,
             visits, cb_calls, d_status>>

fileVars == <<f_disk, f_before, f_pc, f_local, f_result>>

modelVars == <<current_time, clock_steps, cache, get_calls, mm_call, last_fetch>>

configVars == <<cm_file, cm_alive, cm_config, cm_default, cm_shared, updates, cm_call>>

templateVars == <<t_files, templates_cache, active_template, t_call, last_loaded>>

routeVars == <<r_data, r_env, r_response>>

anthropicVars == <<a_response, a_models>>

parseVars == <<p_call>>

processorVars == <<system_template, pp_call>>

runVars == <<run_pc, run_task, run_continued, run_count>>

serverVars == <<sv_file, sv_heap, sv_config, sv_prompt_config, sv_req, sv_writes, sv_overlap, sv_served, sv_process>>

extractVars == <<x_call>>

vars == <<taskVars, vendorVars, cliVars, contentVars, dirVars, fileVars, modelVars, configVars, templateVars, routeVars, anthropicVars, parseVars, processorVars, runVars, serverVars, extractVars>>

\* What each part of the program leaves alone.
notTask == <<vendorVars, cliVars, contentVars, dirVars, fileVars, modelVars, configVars, templateVars, routeVars, anthropicVars, parseVars, processorVars, runVars, serverVars, extractVars>>

notVendor == <<taskVars, cliVars, contentVars, dirVars, fileVars, modelVars, configVars, templateVars, routeVars, anthropicVars, parseVars, processorVars, runVars, serverVars, extractVars>>

notCli == <<vendorVars, contentVars, dirVars, fileVars, modelVars, configVars, templateVars, routeVars, anthropicVars, parseVars, processorVars, runVars, serverVars, extractVars>>

notContent == <<taskVars, cliVars, dirVars, fileVars, modelVars, configVars, templateVars, routeVars, anthropicVars, parseVars, processorVars, runVars, serverVars, extractVars>>

notDir == <<taskVars, vendorVars, cliVars, contentVars, fileVars, modelVars, configVars, templateVars, routeVars, anthropicVars, parseVars, processorVars, runVars, serverVars, extractVars>>

notFile == <<taskVars, vendorVars, cliVars, contentVars, dirVars, modelVars, configVars, templateVars, routeVars, anthropicVars, parseVars, processorVars, runVars, serverVars, extractVars>>

notModels == <<taskVars, vendorVars, cliVars, contentVars, dirVars, fileVars, configVars, templateVars, routeVars, anthropicVars, parseVars, processorVars, runVars, serverVars, extractVars>>

notConfig == <<taskVars, vendorVars, cliVars, contentVars, dirVars, fileVars, modelVars, templateVars, routeVars, anthropicVars, parseVars, processorVars, runVars, serverVars, extractVars>>

notTemplate == <<taskVars, vendorVars, cliVars, contentVars, dirVars, fileVars, modelVars, configVars, routeVars, anthropicVars, parseVars, processorVars, runVars, serverVars, extractVars>>

notRoute == <<taskVars, vendorVars, cliVars, contentVars, dirVars, fileVars, modelVars, configVars, templateVars, anthropicVars, parseVars, processorVars, runVars, serverVars, extractVars>>

notAnthropic == <<taskVars, vendorVars, cliVars, contentVars, dirVars, fileVars, modelVars, configVars, templateVars, routeVars, parseVars, processorVars, runVars, serverVars, extractVars>>

notParse == <<taskVars, vendorVars, cliVars, contentVars, dirVars, fileVars, modelVars, configVars, templateVars, routeVars, anthropicVars, processorVars, runVars, serverVars, extractVars>>

notProcessor == <<taskVars, vendorVars, cliVars, contentVars, dirVars, fileVars, modelVars, configVars, routeVars, anthropicVars, parseVars, runVars, serverVars, extractVars>>

notRun == <<taskVars, vendorVars, cliVars, contentVars, fileVars, modelVars, configVars, templateVars, routeVars, anthropicVars, parseVars, processorVars, serverVars, extractVars>>

notServer == <<taskVars, vendorVars, cliVars, contentVars, dirVars, fileVars, modelVars, configVars, templateVars, routeVars, anthropicVars, parseVars, processorVars, runVars, extractVars>>

notExtract == <<taskVars, vendorVars, cliVars, contentVars, dirVars, fileVars, modelVars, configVars, templateVars, routeVars, anthropicVars, parseVars, processorVars, runVars, serverVars>>

(***************************************************************************)
(* Bounds of the model.                                                     *)
(***************************************************************************)
MaxTasks == 2          \* tasks create_task may create in one behaviour
MaxProcessed == 10     \* update_progress calls per task
MaxFailed == 1         \* of which with success = False
MaxSkipped == 1        \* skip_file calls per task
TickStep == 31         \* seconds one step of the clock adds
MaxTime == 31          \* the clock stops here
MaxCallTicks == 1      \* clock steps that may pass inside one call
MaxRetries == 6        \* the largest max_retries a processor is built with
MaxCliProcessed == 1    \* files one task of the command line processes
MaxWalk == 3            \* files of a directory walk
MaxIdLen == 3          \* characters of a model identifier
MaxContentRetries == 1 \* the largest max_retries of a processor in process_content
MaxModelCalls == 2     \* get_models calls of one behaviour
MaxClockSteps == 3     \* steps of the ModelManager clock
MaxKeyLen == 3         \* characters of a configuration key
MaxUpdates == 1        \* update_config calls of one behaviour
MaxEntries == 3        \* entries of an Anthropic listing response
MaxRuns == 2           \* directory runs of one behaviour
MaxSaved == 2          \* files processed before a checkpoint is read back
MaxServed == 2         \* requests a server thread answers after its first
MaxPieces == 4         \* pieces of a template

(***************************************************************************)
(* Program constants.                                                       *)
(***************************************************************************)
CheckpointEvery == 10      \* task_manager.py:294
CheckpointSeconds == 30    \* task_manager.py:295
HttpCap == 60              \* prompt_processor.py:260, 362, 522
TimeoutCap == 30           \* prompt_processor.py:290, 392, 577
ConnectionCap == 60        \* prompt_processor.py:302, 404, 649
CACHE_EXPIRY_HOURS == 24   \* model_manager.py:19

Statuses == {"running", "paused", "completed", "failed"}

Paths == {"in_dir", "in_file"}

None == <<>>
Some(x) == <<x>>
Get(opt) == opt[1]

(***************************************************************************)
(* TaskState                                                                *)
(***************************************************************************)

\* TaskState.__init__
TaskState_init(task_id, input_path, t) ==
    [task_id |-> task_id, input_path |-> input_path, end_time |-> None,
     status |-> "running", processed |-> 0, success |-> 0, failed |-> 0,
     skipped |-> 0, last_update |-> t]

\* TaskState.to_dict
to_dict(task) ==
    [task_id |-> task.task_id, input_path |-> task.input_path,
     end_time |-> task.end_time, status |-> task.status,
     stats |-> [processed |-> task.processed, success |-> task.success,
                failed |-> task.failed, skipped |-> task.skipped],
     last_update |-> task.last_update]

\* A plausible slip: last_update is left at the time of the load.
from_dict_fresh(data, t) ==
    [TaskState_init(data.task_id, data.input_path, t) EXCEPT
        !.end_time = data.end_time,
        !.status = data.status,
        !.processed = data.stats.processed,
        !.success = data.stats.success,
        !.failed = data.stats.failed,
        !.skipped = data.stats.skipped]

\* TaskState.from_dict: a new TaskState at time t, every field then overwritten
from_dict(data, t) ==
    [TaskState_init(data.task_id, data.input_path, t) EXCEPT
        !.end_time = data.end_time,
        !.status = data.status,
        !.processed = data.stats.processed,
        !.success = data.stats.success,
        !.failed = data.stats.failed,
        !.skipped = data.stats.skipped,
        !.last_update = data.last_update]

\* A plausible slip: a failure is counted as processed but not as failed.
TaskState_update_progress_nofail(task, success, t) ==
    [task EXCEPT !.processed = @ + 1,
                 !.success = IF success THEN @ + 1 ELSE @,
                 !.last_update = t]

\* TaskState.update_progress
TaskState_update_progress(task, success, t) ==
    [task EXCEPT !.processed = @ + 1,
                 !.success = IF success THEN @ + 1 ELSE @,
                 !.failed = IF success THEN @ ELSE @ + 1,
                 !.last_update = t]

\* A plausible slip: a skipped file is counted as processed too.
TaskState_skip_file_processed(task) ==
    [task EXCEPT !.skipped = @ + 1, !.processed = @ + 1]

\* TaskState.skip_file
TaskState_skip_file(task) == [task EXCEPT !.skipped = @ + 1]

\* TaskState.complete
TaskState_complete(task, t) ==
    [task EXCEPT !.status = "completed", !.end_time = Some(t)]

\* TaskState.fail
TaskState_fail(task, t) ==
    [task EXCEPT !.status = "failed", !.end_time = Some(t)]

\* TaskState.pause
TaskState_pause(task) == [task EXCEPT !.status = "paused"]

\* TaskState.resume
TaskState_resume(task) == [task EXCEPT !.status = "running"]

(***************************************************************************)
(* The checkpoint directory.  A file is named <task_id>.json, or            *)
(* <task_id>_completed.json when `completed`; `valid` tells whether its     *)
(* content parses as a task dictionary; `mtime` is its modification time.   *)
(* The sequence is ordered by modification, the most recent file first, so  *)
(* that files written within the same second are still ordered.             *)
(***************************************************************************)
File(task_id, completed, valid, t, data) ==
    [task_id |-> task_id, completed |-> completed, valid |-> valid,
     mtime |-> t, data |-> data]

\* open(checkpoint_file, 'w') + json.dump: the file is created or overwritten
WriteFile(files, f) ==
    LET Other(g) == ~(g.task_id = f.task_id /\ g.completed = f.completed)
    IN  <<f>> \o SelectSeq(files, Other)

\* TaskManager._save_checkpoint, the file name: "_completed" when completed
CheckpointName(task) == task.status = "completed"

\* TaskManager._save_checkpoint, for a current task (the write succeeds)
save_checkpoint(files, task, t) ==
    WriteFile(files, File(task.task_id, CheckpointName(task), TRUE, t, to_dict(task)))

\* The time the task was last persisted, <<>> when it has no file.
CheckpointTime(files, task_id) ==
    LET Mine(g) == g.task_id = task_id
        mine == SelectSeq(files, Mine)
    IN  IF mine = <<>> THEN None ELSE Some(mine[1].mtime)

\* load_latest_task: f.endswith('.json') and not f.endswith('_completed.json')
Candidate(f) == ~f.completed

\* load_latest_task: sort by getmtime, reverse=True
checkpoint_files(files) == SelectSeq(files, Candidate)

\* A plausible slip: only a completed task is taken for finished.
IsFinished_onlycompleted(status) == status = "completed"

\* load_latest_task: status == "completed" or status == "failed"
IsFinished(status) == status = "completed" \/ status = "failed"

\* TaskManager.update_progress: the condition of its _save_checkpoint
ShouldCheckpoint(task, t) ==
    \/ task.processed % CheckpointEvery = 0
    \/ t - task.last_update > CheckpointSeconds

Call(op, task, saved, at, ckpt) ==
    [op |-> op, task |-> task, saved |-> saved, at |-> at, ckpt |-> ckpt]

MyCheckpointTime ==
    IF current_task = None THEN None
    ELSE CheckpointTime(checkpoints, Get(current_task).task_id)

(***************************************************************************)
(* TaskManager.  Every action is one call, from entry to return; the file   *)
(* writes of _save_checkpoint are taken to succeed.                         *)
(***************************************************************************)

\* TaskManager.__init__: a fresh manager on the same checkpoint directory
TaskManager_init ==
    /\ current_task' = None
    /\ last_call' = Call("__init__", None, FALSE, now, None)
    /\ UNCHANGED <<now, checkpoints, next_id>>

\* TaskManager.create_task: a task with a new id, checkpointed at once
create_task(input_path) ==
    /\ LET task == TaskState_init(next_id + 1, input_path, now)
       IN  /\ current_task' = Some(task)
           /\ checkpoints' = save_checkpoint(checkpoints, task, now)
           /\ last_call' = Call("create_task", Some(task), TRUE, now, None)
    /\ next_id' = next_id + 1
    /\ UNCHANGED now

\* TaskManager.load_latest_task
load_latest_task ==
    LET files == checkpoint_files(checkpoints)
    IN  /\ UNCHANGED <<now, checkpoints, next_id>>
        /\ IF files = <<>>
           THEN \* if not checkpoint_files: return None
                /\ last_call' = Call("load_latest_task", None, FALSE, now, None)
                /\ UNCHANGED current_task
           ELSE IF ~files[1].valid
           THEN \* json.load raises: except Exception: return None
                /\ last_call' = Call("load_latest_task", None, FALSE, now, None)
                /\ UNCHANGED current_task
           ELSE LET task == from_dict(files[1].data, now)
                IN  IF IsFinished(task.status)
                    THEN /\ current_task' = None
                         /\ last_call' =
                                Call("load_latest_task", None, FALSE, now, None)
                    ELSE LET loaded == IF task.status = "paused"
                                       THEN TaskState_resume(task) ELSE task
                         IN  /\ current_task' = Some(loaded)
                             /\ last_call' = Call("load_latest_task",
                                                  Some(loaded), FALSE, now, None)

\* TaskManager.update_progress.  The clock is read by TaskState.update_progress
\* (last_update) and again in the checkpoint condition, `ticks` clock steps later.
update_progress(success, ticks) ==
    /\ UNCHANGED next_id
    /\ IF current_task = None
       THEN /\ ticks = 0
            /\ last_call' = Call("update_progress", None, FALSE, now, None)
            /\ UNCHANGED <<now, current_task, checkpoints>>
       ELSE /\ LET task == TaskState_update_progress(Get(current_task), success, now)
                   t2 == now + ticks * TickStep
                   save == ShouldCheckpoint(task, t2)
               IN  /\ current_task' = Some(task)
                   /\ now' = t2
                   /\ checkpoints' = IF save
                                     THEN save_checkpoint(checkpoints, task, t2)
                                     ELSE checkpoints
                   /\ last_call' = Call("update_progress", Some(task), save, now,
                                        MyCheckpointTime)

\* TaskManager.skip_file
skip_file ==
    /\ UNCHANGED <<now, checkpoints, next_id>>
    /\ IF current_task = None
       THEN /\ last_call' = Call("skip_file", None, FALSE, now, None)
            /\ UNCHANGED current_task
       ELSE /\ current_task' = Some(TaskState_skip_file(Get(current_task)))
            /\ last_call' = Call("skip_file", None, FALSE, now, MyCheckpointTime)

\* complete_task, fail_task, pause_task, resume_task: the transition, then
\* _save_checkpoint
Transition(op, task) ==
    /\ UNCHANGED <<now, next_id>>
    /\ IF current_task = None
       THEN /\ last_call' = Call(op, None, FALSE, now, None)
            /\ UNCHANGED <<current_task, checkpoints>>
       ELSE /\ current_task' = Some(task)
            /\ checkpoints' = save_checkpoint(checkpoints, task, now)
            /\ last_call' = Call(op, Some(task), TRUE, now, MyCheckpointTime)

\* TaskManager.complete_task
complete_task ==
    Transition("complete_task",
               IF current_task = None THEN None
               ELSE TaskState_complete(Get(current_task), now))

\* TaskManager.fail_task
fail_task ==
    Transition("fail_task",
               IF current_task = None THEN None
               ELSE TaskState_fail(Get(current_task), now))

\* TaskManager.pause_task
pause_task ==
    Transition("pause_task",
               IF current_task = None THEN None
               ELSE TaskState_pause(Get(current_task)))

\* TaskManager.resume_task
resume_task ==
    Transition("resume_task",
               IF current_task = None THEN None
               ELSE TaskState_resume(Get(current_task)))

\* Time passes between two calls.
Tick ==
    /\ now' = now + TickStep
    /\ UNCHANGED <<current_task, checkpoints, next_id, last_call>>

(***************************************************************************)
(* The vendor calls of PromptProcessor: _call_openai_api,                   *)
(* _call_openrouter_api and _call_deepseek_api, one retry loop each, the    *)
(* same but for the URL, the error details and the lines after a 200.       *)
(***************************************************************************)
Providers == {"openai", "openrouter", "deepseek"}

RetryableStatus == {429, 500, 502, 503, 504}

\* The statuses a vendor answers with, 200 apart.
ErrorStatuses == {400, 401, 403, 404, 418} \cup RetryableStatus

Replies == {"HELLO", ""}

RetryIntervals == {1, 3}

RECURSIVE Pow2(_)
Pow2(n) == IF n = 0 THEN 1 ELSE 2 * Pow2(n - 1)

Min(a, b) == IF a < b THEN a ELSE b

\* A plausible slip: the wait is computed before current_retry is incremented.
wait_time_stale(interval, retry, cap) == Min(interval * Pow2(retry - 1), cap)

\* wait_time = min(self.retry_interval * (2 ** current_retry), cap)
wait_time(interval, retry, cap) == Min(interval * Pow2(retry), cap)

\* current_retry < self.max_retries
retries_left(retry, budget) == retry < budget

\* A plausible slip: 404 is taken for a status worth a retry.
retry_status_with404(status) == status \in RetryableStatus \cup {404}

\* response.status_code in [429, 500, 502, 503, 504]
retry_status(status) == status \in RetryableStatus

\* _call_deepseek_api: error_details["error_type"] by status code
error_type(status) ==
    CASE status = 400 -> "bad_request"
      [] status = 401 -> "unauthorized"
      [] status = 403 -> "forbidden"
      [] status = 404 -> "not_found"
      [] status = 429 -> "rate_limited"
      [] status = 500 -> "server_error"
      [] status \in {502, 503, 504} -> "service_unavailable"
      [] OTHER -> "unknown_http_error"

Response(kind, status, content) ==
    [kind |-> kind, status |-> status, content |-> content]

NoResponse == Response("none", 0, "")

Result(kind, reply, details, etype) ==
    [kind |-> kind, reply |-> reply, details |-> details, error_type |-> etype]

NoResult == Result("none", "", {}, "")

\* raise ProcessingError(error_msg, details) for a non-200 response
http_error(vendor, status) ==
    IF vendor = "deepseek"
    THEN Result("ProcessingError", "",
                {"request_id", "status_code", "response", "error_type",
                 "suggestion"}, error_type(status))
    ELSE Result("ProcessingError", "", {"response"}, "")

\* raise ProcessingError(error_msg, details) after the last timeout
timeout_error(vendor) ==
    IF vendor = "deepseek"
    THEN Result("ProcessingError", "",
                {"request_id", "timeout_value", "original_error", "error_type",
                 "suggestion"}, "timeout")
    ELSE Result("ProcessingError", "", {"timeout"}, "")

\* raise ProcessingError(error_msg, details) after the last connection error
connection_error(vendor) ==
    IF vendor = "deepseek"
    THEN Result("ProcessingError", "",
                {"request_id", "original_error", "error_type", "suggestion"},
                "connection")
    ELSE Result("ProcessingError", "", {"suggestion"}, "")

\* except Exception as e: raise ProcessingError(error_msg, details)
unexpected_error(vendor, name) ==
    IF vendor = "deepseek"
    THEN Result("ProcessingError", "",
                {"request_id", "original_error", "error_type", "traceback",
                 "request_info"}, name)
    ELSE Result("ProcessingError", "", {"original_error"}, "")

\* The lines after a 200 with a well-formed body.  _call_deepseek_api has bound
\* request_id by then; in _call_openai_api and _call_openrouter_api the name is
\* bound nowhere, the log line raises NameError and `except Exception` wraps it.
on_success(vendor, content) ==
    IF vendor = "deepseek"
    THEN Result("reply", content, {}, "")
    ELSE unexpected_error(vendor, "NameError")

InLoop == v_pc = "loop" /\ current_retry <= max_retries

\* One pass of the loop ends the call.
finish(resp, result) ==
    /\ requests' = requests + 1
    /\ response' = resp
    /\ v_pc' = "done"
    /\ v_result' = result
    /\ UNCHANGED <<provider, max_retries, retry_interval, current_retry, sleeps>>

\* current_retry += 1; time.sleep(wait_time); continue
retry(resp, cause, cap) ==
    /\ requests' = requests + 1
    /\ response' = resp
    /\ current_retry' = current_retry + 1
    /\ sleeps' = Append(sleeps,
                        [cause |-> cause,
                         wait |-> wait_time(retry_interval, current_retry + 1, cap)])
    /\ UNCHANGED <<provider, max_retries, retry_interval, v_pc, v_result>>

\* requests.post answers 200 with a chat completion
post_ok(content) ==
    /\ InLoop
    /\ finish(Response("ok", 200, content), on_success(provider, content))

\* requests.post answers 200 with a body that is no chat completion
post_bad_body ==
    /\ InLoop
    /\ finish(Response("bad_body", 200, ""), unexpected_error(provider, "ValueError"))

\* requests.post answers with another status
post_status(status) ==
    /\ InLoop
    /\ IF retry_status(status) /\ retries_left(current_retry, max_retries)
       THEN retry(Response("status", status, ""), "status", HttpCap)
       ELSE finish(Response("status", status, ""), http_error(provider, status))

\* requests.post raises requests.exceptions.Timeout
post_timeout ==
    /\ InLoop
    /\ IF retries_left(current_retry, max_retries)
       THEN retry(Response("timeout", 0, ""), "timeout", TimeoutCap)
       ELSE finish(Response("timeout", 0, ""), timeout_error(provider))

\* requests.post raises requests.exceptions.ConnectionError
post_connection_error ==
    /\ InLoop
    /\ IF retries_left(current_retry, max_retries)
       THEN retry(Response("connection", 0, ""), "connection", ConnectionCap)
       ELSE finish(Response("connection", 0, ""), connection_error(provider))

\* requests.post raises anything else
post_exception ==
    /\ InLoop
    /\ finish(Response("exception", 0, ""), unexpected_error(provider, "Exception"))

\* while current_retry <= self.max_retries is false: the function ends with no
\* return statement
loop_exit ==
    /\ v_pc = "loop"
    /\ ~(current_retry <= max_retries)
    /\ v_pc' = "done"
    /\ v_result' = Result("None", "", {}, "")
    /\ UNCHANGED <<provider, max_retries, retry_interval, current_retry,
                   requests, sleeps, response>>

VendorIdle ==
    /\ provider = "deepseek"
    /\ max_retries = 0
    /\ retry_interval = 3
    /\ v_pc = "done"
    /\ current_retry = 0
    /\ requests = 0
    /\ sleeps = <<>>
    /\ response = NoResponse
    /\ v_result = NoResult

(***************************************************************************)
(* PromptProcessor.process_content: the messages are taken from the         *)
(* template, _call_model_api parses the configured model identifier and     *)
(* enters the vendor call of its provider id.  An identifier is a sequence  *)
(* of characters, written here as "/" and as whole words that hold no "/".  *)
(***************************************************************************)
IdChars == {"openai", "openrouter", "deepseek", "x", "/"}

\* The identifiers of up to MaxIdLen characters.
ModelIds == UNION {[1..n -> IdChars] : n \in 0..MaxIdLen}

\* str.split('/', 1): the index of the first '/', 0 when there is none
FirstSlash(id) ==
    IF \E i \in 1..Len(id) : id[i] = "/"
    THEN CHOOSE i \in 1..Len(id) :
            /\ id[i] = "/"
            /\ \A j \in 1..(i - 1) : id[j] # "/"
    ELSE 0

\* A plausible slip: an identifier without '/' is taken for its own provider id.
parse_model_id_nodefault(model_id) ==
    LET i == FirstSlash(model_id)
    IN  IF i = 0
        THEN <<model_id, model_id>>
        ELSE <<SubSeq(model_id, 1, i - 1), SubSeq(model_id, i + 1, Len(model_id))>>

\* str.rsplit('/', 1) in place of split: the index of the last '/'
LastSlash(id) ==
    IF \E i \in 1..Len(id) : id[i] = "/"
    THEN CHOOSE i \in 1..Len(id) :
            /\ id[i] = "/"
            /\ \A j \in (i + 1)..Len(id) : id[j] # "/"
    ELSE 0

\* A plausible slip: the identifier is split at its last '/'.
parse_model_id_rsplit(model_id) ==
    LET i == LastSlash(model_id)
    IN  IF i = 0
        THEN <<(<<"deepseek">>), model_id>>
        ELSE <<SubSeq(model_id, 1, i - 1), SubSeq(model_id, i + 1, Len(model_id))>>

\* ModelManager.parse_model_id
parse_model_id(model_id) ==
    LET i == FirstSlash(model_id)
    IN  IF i = 0
        THEN <<(<<"deepseek">>), model_id>>
        ELSE <<SubSeq(model_id, 1, i - 1), SubSeq(model_id, i + 1, Len(model_id))>>

ParseIdle == p_call = [model_id |-> <<>>, returned |-> None]

\* a call of ModelManager.parse_model_id
parse(model_id) ==
    p_call' = [model_id |-> model_id, returned |-> Some(parse_model_id(model_id))]

ContentResult(kind, reply, cause) == [kind |-> kind, reply |-> reply, cause |-> cause]

ContentIdle ==
    /\ model = <<>>
    /\ c_pc = "done"
    /\ calls = <<>>
    /\ c_result = ContentResult("none", "", "")

\* process_content, to the vendor call: _extract_messages_from_template gives
\* the two messages or raises, then _call_model_api dispatches on the provider id
process_content(extracted) ==
    /\ c_pc = "start"
    /\ UNCHANGED <<model, max_retries, retry_interval, current_retry, requests,
                   sleeps, response, v_result>>
    /\ IF ~extracted
       THEN /\ c_pc' = "done"
            /\ c_result' = ContentResult("ProcessingError", "", "template")
            /\ UNCHANGED <<calls, provider, v_pc>>
       ELSE LET provider_id == parse_model_id(model)[1]
            IN  IF provider_id \in {<<p>> : p \in Providers}
                THEN /\ provider' = provider_id[1]
                     /\ calls' = Append(calls, provider_id[1])
                     /\ v_pc' = "loop"
                     /\ c_pc' = "vendor"
                     /\ UNCHANGED c_result
                ELSE /\ c_pc' = "done"
                     /\ c_result' = ContentResult("ProcessingError", "", "provider")
                     /\ UNCHANGED <<calls, provider, v_pc>>

\* process_content, from the vendor call on: its reply is returned, and whatever
\* it raised is wrapped in a ProcessingError
process_content_return ==
    /\ c_pc = "vendor"
    /\ v_pc = "done"
    /\ c_pc' = "done"
    /\ c_result' = CASE v_result.kind = "reply" ->
                            ContentResult("reply", v_result.reply, "")
                     [] v_result.kind = "ProcessingError" ->
                            ContentResult("ProcessingError", "", "vendor")
                     [] OTHER -> ContentResult("None", "", "")
    /\ UNCHANGED <<model, calls>>
    /\ UNCHANGED vendorVars

(***************************************************************************)
(* PromptProcessor.process_directory.  A file of the walk has a name, which *)
(* may hold "_optimized", and an extension as written; its index in the     *)
(* walk stands for its path.  What happens to a counted file is one of      *)
(* Outcomes; a callback, when given, may raise each time it is invoked.     *)
(***************************************************************************)
Extensions == {".md", ".MD", ".txt"}

\* str.lower() on an extension
lower(ext) == IF ext = ".MD" THEN ".md" ELSE ext

WalkFile(optimized, ext) == [optimized |-> optimized, ext |-> ext]

WalkFiles == {WalkFile(o, e) : o \in BOOLEAN, e \in Extensions}

\* The walks of up to MaxWalk files.
Walks == UNION {[1..n -> WalkFiles] : n \in 0..MaxWalk}

\* The file_extensions argument: None, or a list, given as its set
ExtensionArgs == {None, Some({}), Some({".md"}), Some({".txt"})}

\* process_directory: None becomes ['.md'], the empty list becomes None
effective_extensions(arg) ==
    IF arg = None THEN Some({".md"})
    ELSE IF Get(arg) = {} THEN None
    ELSE arg

\* A plausible slip: the extension is compared as written.
skipped_by_filter_cased(file, arg) ==
    LET exts == effective_extensions(arg)
    IN  exts # None /\ file.ext \notin Get(exts)

\* file_extensions is not None and file_ext not in file_extensions
skipped_by_filter(file, arg) ==
    LET exts == effective_extensions(arg)
    IN  exts # None /\ lower(file.ext) \notin Get(exts)

\* "_optimized" in file_name
skipped_by_name(file) == file.optimized

NoStats == [total |-> 0, success |-> 0, failed |-> 0, skipped |-> 0,
            failed_files |-> <<>>]

Outcomes == {"read_error", "content_error", "no_result", "write_error", "written"}

\* except Exception in the inner process_file: the failure is counted and
\* file_processed(path, False) is invoked, outside any try
handle_failure(st, log, i, raises) ==
    [stats |-> [st EXCEPT !.failed = @ + 1,
                          !.failed_files = Append(@, i)],
     log |-> IF callbacks THEN Append(log, <<i, FALSE>>) ELSE log,
     raised |-> callbacks /\ raises]

\* The inner process_file for a counted file: the try block, then the handler
\* when the block raised.  raise1 and raise2 tell whether the first and the
\* second invocation of file_processed for this file raise.
process_counted(st, log, i, outcome, raise1, raise2) ==
    LET st1 == [st EXCEPT !.total = @ + 1]
    IN  CASE outcome \in {"read_error", "content_error", "write_error"} ->
               handle_failure(st1, log, i, raise1)
          [] outcome = "no_result" ->
               LET st2 == [st1 EXCEPT !.failed = @ + 1,
                                      !.failed_files = Append(@, i)]
                   log2 == IF callbacks THEN Append(log, <<i, FALSE>>) ELSE log
               IN  IF callbacks /\ raise1
                   THEN handle_failure(st2, log2, i, raise2)
                   ELSE [stats |-> st2, log |-> log2, raised |-> FALSE]
          [] OTHER ->
               LET st2 == [st1 EXCEPT !.success = @ + 1]
                   log2 == IF callbacks THEN Append(log, <<i, TRUE>>) ELSE log
               IN  IF callbacks /\ raise1
                   THEN handle_failure(st2, log2, i, raise2)
                   ELSE [stats |-> st2, log |-> log2, raised |-> FALSE]

DirIdle ==
    /\ d_exists = TRUE
    /\ d_files = <<>>
    /\ file_extensions = None
    /\ callbacks = FALSE
    /\ d_next = 0
    /\ stats = NoStats
    /\ visits = <<>>
    /\ cb_calls = <<>>
    /\ d_status = "returned"

\* process_directory, to the walk: the path must be an existing directory
process_directory ==
    /\ d_status = "called"
    /\ IF d_exists
       THEN /\ d_status' = "walking"
            /\ d_next' = 1
       ELSE /\ d_status' = "raised"
            /\ UNCHANGED d_next
    /\ UNCHANGED <<d_exists, d_files, file_extensions, callbacks, stats, visits,
                   cb_calls>>

\* The inner process_file on a file the filter or its name excludes
skip_walk_file(raises) ==
    /\ d_status = "walking"
    /\ d_next <= Len(d_files)
    /\ \/ skipped_by_filter(d_files[d_next], file_extensions)
       \/ skipped_by_name(d_files[d_next])
    /\ stats' = [stats EXCEPT !.skipped = @ + 1]
    /\ visits' = Append(visits, "skipped")
    /\ cb_calls' = IF callbacks THEN Append(cb_calls, <<d_next, "skipped">>)
                   ELSE cb_calls
    /\ d_status' = IF callbacks /\ raises THEN "raised" ELSE "walking"
    /\ d_next' = d_next + 1
    /\ UNCHANGED <<d_exists, d_files, file_extensions, callbacks>>

\* The inner process_file on any other file
process_walk_file(outcome, raise1, raise2) ==
    /\ d_status = "walking"
    /\ d_next <= Len(d_files)
    /\ ~skipped_by_filter(d_files[d_next], file_extensions)
    /\ ~skipped_by_name(d_files[d_next])
    /\ LET after == process_counted(stats, cb_calls, d_next, outcome, raise1, raise2)
       IN  /\ stats' = after.stats
           /\ cb_calls' = after.log
           /\ d_status' = IF after.raised THEN "raised" ELSE "walking"
    /\ visits' = Append(visits, outcome)
    /\ d_next' = d_next + 1
    /\ UNCHANGED <<d_exists, d_files, file_extensions, callbacks>>

\* The walk is over: return stats
process_directory_return ==
    /\ d_status = "walking"
    /\ d_next > Len(d_files)
    /\ d_status' = "returned"
    /\ UNCHANGED <<d_exists, d_files, file_extensions, callbacks, d_next, stats,
                   visits, cb_calls>>

(***************************************************************************)
(* PromptProcessor.process_file: the file is read, process_content is run   *)
(* on its text, and a non-empty result is written over the same file.  A    *)
(* step is one statement that touches the file or calls process_content.    *)
(***************************************************************************)
\* Texts: the empty one, two plain ones, and one holding a lone surrogate, as
\* json gives for "\ud800", which the utf-8 codec refuses to encode.
Texts == {"", "A", "B", "lone_surrogate"}

encodable(text) == text # "lone_surrogate"

\* What process_content gives: a text, None, or a raise
ContentOutcomes == {Some(t) : t \in Texts} \cup {None} \cup {<<"raise", "raise">>}

NoLocals == [content |-> None, result |-> None]

FileIdle ==
    /\ f_disk = None
    /\ f_before = None
    /\ f_pc = "idle"
    /\ f_local = NoLocals
    /\ f_result = "none"

\* except Exception as e: raise ProcessingError(...)
file_raise ==
    /\ f_pc' = "idle"
    /\ f_result' = "ProcessingError"

\* process_file is called
process_file ==
    /\ f_pc = "idle"
    /\ f_pc' = "exists"
    /\ f_before' = f_disk
    /\ f_local' = NoLocals
    /\ f_result' = "none"
    /\ UNCHANGED f_disk

\* if not os.path.exists(file_path): raise; open(file_path, 'r') and f.read()
process_file_read(readable) ==
    /\ f_pc = "exists"
    /\ IF f_disk = None \/ ~readable
       THEN /\ file_raise
            /\ UNCHANGED f_local
       ELSE /\ f_pc' = "process_content"
            /\ f_local' = [f_local EXCEPT !.content = f_disk]
            /\ UNCHANGED f_result
    /\ UNCHANGED <<f_disk, f_before>>

\* result = self.process_content(content); if not result: return False
process_file_content(outcome) ==
    /\ f_pc = "process_content"
    /\ IF Len(outcome) = 2
       THEN /\ file_raise
            /\ UNCHANGED f_local
       ELSE /\ f_local' = [f_local EXCEPT !.result = outcome]
            /\ IF outcome = None \/ outcome = Some("")
               THEN /\ f_pc' = "idle"
                    /\ f_result' = "False"
               ELSE /\ f_pc' = "open"
                    /\ UNCHANGED f_result
    /\ UNCHANGED <<f_disk, f_before>>

\* open(file_path, 'w', encoding='utf-8'): the file is created or truncated,
\* unless the open is refused
process_file_open(writable) ==
    /\ f_pc = "open"
    /\ IF writable
       THEN /\ f_disk' = Some("")
            /\ f_pc' = "write"
            /\ UNCHANGED f_result
       ELSE /\ file_raise
            /\ UNCHANGED f_disk
    /\ UNCHANGED <<f_before, f_local>>

\* f.write(result) and the close: the text is encoded and stored, or the write
\* raises and the truncated file stays
written(text, stored) ==
    IF encodable(text) /\ stored THEN Some(text) ELSE Some("")

\* f.write(result); return True
process_file_write(stored) ==
    /\ f_pc = "write"
    /\ f_disk' = written(Get(f_local.result), stored)
    /\ IF encodable(Get(f_local.result)) /\ stored
       THEN /\ f_pc' = "idle"
            /\ f_result' = "True"
       ELSE file_raise
    /\ UNCHANGED <<f_before, f_local>>

\* Between two calls the file is removed or rewritten by someone else.
file_changes(disk) ==
    /\ f_pc = "idle"
    /\ f_result # "none"
    /\ f_disk' = disk
    /\ f_before' = disk
    /\ f_result' = "none"
    /\ UNCHANGED <<f_pc, f_local>>

(***************************************************************************)
(* ModelManager.get_models (model_manager.py): the model list of a provider *)
(* comes from its cache file while that is young, and from the provider's   *)
(* fetch_models otherwise.  A step is the part of get_models up to the call *)
(* of fetch_models, or the part from that call on.                          *)
(***************************************************************************)
Expiry == CACHE_EXPIRY_HOURS * 3600

\* ModelManager.__init__ registers these four
Registered == {"deepseek", "openai", "openrouter", "anthropic"}

ProviderIds == Registered \cup {"unknown"}

\* What fetch_models may give, besides None: a list of one model, whose name
\* may hold a lone surrogate, as response.json() gives for "\ud800"
ModelLists == {<<"model">>, <<"lone_surrogate">>}

serializable(models) == \A i \in 1..Len(models) : encodable(models[i])

\* A cache file: none, one json.dump has written whole, or one that json.load
\* refuses
NoFile == [kind |-> "absent"]

Corrupt == [kind |-> "corrupt"]

Entry(timestamp, models) ==
    [kind |-> "entry", timestamp |-> timestamp, models |-> models]

\* current_time - cache_time < CACHE_EXPIRY_HOURS * 3600
is_fresh_reversed(cache_time, time) == cache_time - time < Expiry

is_fresh(cache_time, time) == time - cache_time < Expiry

\* if not force_refresh and os.path.exists(cache_file): ... return
\* cache_data.get("models", []); a file json.load refuses is logged and passed
served_from_cache(file, force_refresh, time) ==
    /\ ~force_refresh
    /\ file.kind = "entry"
    /\ is_fresh(file.timestamp, time)

\* if models is None: the cache file's models, [] without one or with one
\* json.load refuses
fallback_empty(file) == <<>>

fallback(file) == IF file.kind = "entry" THEN file.models ELSE <<>>

\* with open(cache_file, 'w') as f: json.dump({"timestamp": time.time(),
\* "models": models}, f, ensure_ascii=False): the open truncates, and a dump
\* that raises leaves a part of the text; every exception is logged and passed
json_dump(file, models, time, write) ==
    CASE write = "refused" -> file
      [] write = "stored" /\ serializable(models) -> Entry(time, models)
      [] OTHER -> Corrupt

WriteOutcomes == {"refused", "partial", "stored"}

NoModelCall ==
    [pc |-> "idle", provider_id |-> "unknown", force_refresh |-> FALSE,
     started |-> 0, before |-> NoFile, prior |-> None, fetch_calls |-> 0,
     fetched |-> None, write |-> "none", result |-> None]

ModelsIdle ==
    /\ current_time = 0
    /\ clock_steps = 0
    /\ cache = [p \in Registered |-> NoFile]
    /\ get_calls = 0
    /\ mm_call = NoModelCall
    /\ last_fetch = None

\* the last successful fetch_models, when it was this provider's
prior_fetch(provider_id) ==
    IF last_fetch # None /\ Get(last_fetch).provider_id = provider_id
    THEN last_fetch
    ELSE None

\* get_models, up to the call of fetch_models
get_models(provider_id, force_refresh) ==
    /\ mm_call.pc # "fetch_models"
    /\ get_calls < MaxModelCalls
    /\ get_calls' = get_calls + 1
    /\ LET entered == [NoModelCall EXCEPT !.provider_id = provider_id,
                                          !.force_refresh = force_refresh,
                                          !.started = current_time]
       IN IF provider_id \notin Registered
          THEN mm_call' = [entered EXCEPT !.pc = "returned",
                                          !.result = Some(<<>>)]
          ELSE LET file == cache[provider_id]
                   call == [entered EXCEPT !.before = file,
                                           !.prior = prior_fetch(provider_id)]
               IN IF served_from_cache(file, force_refresh, current_time)
                  THEN mm_call' = [call EXCEPT !.pc = "returned",
                                               !.result = Some(file.models)]
                  ELSE mm_call' = [call EXCEPT !.pc = "fetch_models"]
    /\ UNCHANGED <<current_time, clock_steps, cache, last_fetch>>

\* models = provider.fetch_models(api_key), and the rest of get_models
fetch_models(models, write) ==
    /\ mm_call.pc = "fetch_models"
    /\ LET p == mm_call.provider_id
           call == [mm_call EXCEPT !.pc = "returned",
                                   !.fetch_calls = @ + 1,
                                   !.fetched = models]
       IN IF models = None
          THEN /\ mm_call' = [call EXCEPT !.result = Some(fallback(cache[p]))]
               /\ UNCHANGED <<cache, last_fetch>>
          ELSE /\ cache' = [cache EXCEPT
                              ![p] = json_dump(@, Get(models), current_time, write)]
               /\ last_fetch' = Some([provider_id |-> p,
                                       time |-> current_time,
                                       models |-> Get(models)])
               /\ mm_call' = [call EXCEPT !.write = write, !.result = models]
    /\ UNCHANGED <<current_time, clock_steps, get_calls>>

\* Time passes, also while fetch_models runs.
ClockSteps == {1, Expiry - 1}

time_passes(step) ==
    /\ clock_steps < MaxClockSteps
    /\ clock_steps' = clock_steps + 1
    /\ current_time' = current_time + step
    /\ UNCHANGED <<cache, get_calls, mm_call, last_fetch>>

(***************************************************************************)
(* ConfigManager (config_manager.py).  A configuration is the mapping json  *)
(* reads: here a function from key paths to what is bound there, "{}" for a *)
(* mapping (whose entries are the paths below it) and a text for any other  *)
(* value.  A key is a sequence of characters, "." among them, a part of a   *)
(* key is the sequence of characters between two dots.                      *)
(***************************************************************************)
KeyChars == {"api_key", "parameters", "temperature", "."}

Keys == UNION {[1..n -> KeyChars] : n \in 1..MaxKeyLen}

\* Values given to update_config: a text, an empty mapping, and a text holding
\* a lone surrogate, which json.dump cannot write to a utf-8 file
Values == {"v", "{}", "lone_surrogate"}

\* "." in key
HasDot(key) == \E i \in 1..Len(key) : key[i] = "."

\* key.split(".")
RECURSIVE split(_)
split(key) ==
    IF ~HasDot(key)
    THEN <<key>>
    ELSE LET dot == CHOOSE i \in 1..Len(key) :
                       key[i] = "." /\ \A j \in 1..(i - 1) : key[j] # "."
         IN <<SubSeq(key, 1, dot - 1)>> \o split(SubSeq(key, dot + 1, Len(key)))

\* self.default_config
default_config ==
    (<< <<"api_key">> >> :> "") @@
    (<< <<"template_name">> >> :> "standard") @@
    (<< <<"model">> >> :> "anthropic/claude-3.7-sonnet") @@
    (<< <<"default_directory">> >> :> "") @@
    (<< <<"parameters">> >> :> "{}") @@
    (<< <<"parameters">>, <<"temperature">> >> :> "0.7") @@
    (<< <<"parameters">>, <<"max_tokens">> >> :> "1000")

\* {}
empty_config == [path \in {} |-> ""]

\* whether what `path` leads to is a mapping; the configuration itself is one
is_mapping(cfg, path) ==
    path = <<>> \/ (path \in DOMAIN cfg /\ cfg[path] = "{}")

IsPrefix(p, q) == Len(p) < Len(q) /\ SubSeq(q, 1, Len(p)) = p

\* current[part] = value, current being the mapping at `path`
bind(cfg, path, value) ==
    [q \in {r \in DOMAIN cfg : ~IsPrefix(path, r)} \cup {path} |->
        IF q = path THEN value ELSE cfg[q]]

\* for part in parts[:-1]: if part not in current: current[part] = {};
\* current = current[part], from the i-th part on.  On a value that is not a
\* mapping the test or the subscript raises a TypeError.
RECURSIVE descend(_, _, _, _)
descend(cfg, path, parts, i) ==
    IF i >= Len(parts)
    THEN [raised |-> FALSE, config |-> cfg, current |-> path]
    ELSE IF ~is_mapping(cfg, path)
         THEN [raised |-> TRUE, config |-> cfg, current |-> path]
         ELSE LET below == Append(path, parts[i])
              IN descend(IF below \in DOMAIN cfg THEN cfg
                         ELSE bind(cfg, below, "{}"),
                         below, parts, i + 1)

\* the try block of update_config up to the save: key.split("."), the loop,
\* current[parts[-1]] = value; self.config[key] = value without a dot
assign(cfg, key, value) ==
    LET parts == split(key)
        at == descend(cfg, <<>>, parts, 1)
    IN IF at.raised \/ ~is_mapping(at.config, at.current)
       THEN [raised |-> TRUE, config |-> at.config]
       ELSE [raised |-> FALSE,
             config |-> bind(at.config,
                             Append(at.current, parts[Len(parts)]), value)]

\* get_config_value with default None: <<>> for None, <<value>> otherwise.  A
\* missing part, and an exception on a value that is not a mapping, give the
\* default.
lookup(cfg, key) ==
    LET path == split(key)
    IN IF /\ \A n \in 1..(Len(path) - 1) : is_mapping(cfg, SubSeq(path, 1, n))
          /\ path \in DOMAIN cfg
       THEN Some(cfg[path])
       ELSE None

\* json.dump(config, f, ensure_ascii=False) on a utf-8 file
dumps(cfg) == \A path \in DOMAIN cfg : encodable(cfg[path])

\* The file at config_path: none, one json.load refuses, or a configuration
NoConfigFile == [kind |-> "absent"]

InvalidJson == [kind |-> "invalid"]

JsonFile(cfg) == [kind |-> "json", config |-> cfg]

\* save_config: open(self.config_path, 'w') truncates the file, json.dump
\* writes it; an exception from either gives False
save_config(file, cfg, write) ==
    CASE write = "refused" -> [file |-> file, saved |-> FALSE]
      [] write = "stored" /\ dumps(cfg) ->
            [file |-> JsonFile(cfg), saved |-> TRUE]
      [] OTHER -> [file |-> InvalidJson, saved |-> FALSE]

\* load_config.  Every except clause starts with logger.error, and the module
\* defines no logger: the clause raises a NameError before it assigns.
\* Without a file, self.config becomes self.default_config.copy(): a new
\* mapping whose values are those of `defaults`, the mapping "parameters" of
\* the defaults itself among them (copied).
load_config(file, cfg, defaults, write) ==
    CASE file.kind = "absent" ->
            [raised |-> FALSE, config |-> defaults, copied |-> TRUE,
             file |-> save_config(file, defaults, write).file]
      [] file.kind = "json" ->
            [raised |-> FALSE, config |-> file.config, copied |-> FALSE,
             file |-> file]
      [] OTHER -> [raised |-> TRUE, config |-> cfg, copied |-> FALSE,
                   file |-> file]

\* the path of default_config["parameters"]
Parameters == << <<"parameters">> >>

\* self.default_config when its "parameters" is the mapping cfg["parameters"]
sharing(defaults, cfg) ==
    [path \in {p \in DOMAIN defaults : ~IsPrefix(Parameters, p)}
              \cup {p \in DOMAIN cfg : IsPrefix(Parameters, p)} |->
        IF IsPrefix(Parameters, path) THEN cfg[path] ELSE defaults[path]]

NoConfigCall ==
    [op |-> "none", key |-> <<>>, value |-> "", returned |-> None,
     raised |-> FALSE, file |-> NoConfigFile, config |-> empty_config]

ConfigCall(op, key, value, returned, raised) ==
    [op |-> op, key |-> key, value |-> value, returned |-> returned,
     raised |-> raised, file |-> cm_file, config |-> cm_config]

ConfigIdle ==
    /\ cm_file = NoConfigFile
    /\ cm_alive = FALSE
    /\ cm_config = empty_config
    /\ cm_default = default_config
    /\ cm_shared = FALSE
    /\ updates = 0
    /\ cm_call = NoConfigCall

\* ConfigManager(config_path): self.config = {} and load_config()
ConfigManager_init(write) ==
    /\ LET loaded == load_config(cm_file, empty_config, default_config, write)
       IN /\ cm_file' = loaded.file
          /\ cm_config' = loaded.config
          /\ cm_alive' = ~loaded.raised
          /\ cm_shared' = loaded.copied
          /\ cm_call' = ConfigCall("__init__", <<>>, "", None, loaded.raised)
    /\ cm_default' = default_config
    /\ UNCHANGED updates

\* load_config() of the manager
ConfigManager_load_config(write) ==
    /\ cm_alive
    /\ LET loaded == load_config(cm_file, cm_config, cm_default, write)
       IN /\ cm_file' = loaded.file
          /\ cm_config' = loaded.config
          /\ cm_shared' = IF loaded.raised THEN cm_shared ELSE loaded.copied
          /\ cm_call' = ConfigCall("load_config", <<>>, "", None, loaded.raised)
    /\ UNCHANGED <<cm_alive, cm_default, updates>>

\* update_config(key, value): the assignment, then save_config(self.config);
\* except Exception: return False
update_config(key, value, write) ==
    /\ cm_alive
    /\ updates < MaxUpdates
    /\ updates' = updates + 1
    /\ LET assigned == assign(cm_config, key, value)
           saved == save_config(cm_file, assigned.config, write)
           rebound == ~assigned.raised /\ split(key) = Parameters
       IN /\ cm_config' = assigned.config
          /\ cm_shared' = (cm_shared /\ ~rebound)
          /\ cm_default' = IF cm_shared /\ ~rebound
                           THEN sharing(cm_default, assigned.config)
                           ELSE cm_default
          /\ cm_file' = IF assigned.raised THEN cm_file ELSE saved.file
          /\ cm_call' = ConfigCall("update_config", key, value,
                                   Some(~assigned.raised /\ saved.saved), FALSE)
    /\ UNCHANGED cm_alive

\* get_config_value(key)
get_config_value(key) ==
    /\ cm_alive
    /\ cm_call.op # "get_config_value"
    /\ cm_call' = ConfigCall("get_config_value", key, "",
                             lookup(cm_config, key), FALSE)
    /\ UNCHANGED <<cm_file, cm_alive, cm_config, cm_default, cm_shared, updates>>

\* Someone else removes the file or leaves one that is not JSON.
config_file_changes(file) ==
    /\ cm_file # file
    /\ cm_file' = file
    /\ cm_call' = NoConfigCall
    /\ UNCHANGED <<cm_alive, cm_config, cm_default, cm_shared, updates>>

(***************************************************************************)
(* TemplateManager (template_manager.py): load_template and                 *)
(* get_current_template over the files of templates_dir.                    *)
(***************************************************************************)
TemplateNames == {"standard", "custom"}

TemplateTexts == {"", "A", "B"}

\* What load_template may be given: a text, empty or not, or a value that is
\* not a text, falsy (None, 0) or truthy (5, ["standard"])
Str(name) == [type |-> "str", truthy |-> name # "", name |-> name]

NonStr(truthy) == [type |-> "other", truthy |-> truthy, name |-> ""]

TemplateArgs ==
    {Str(name) : name \in TemplateNames \cup {""}}
        \cup {NonStr(truthy) : truthy \in BOOLEAN}

NoTemplates == [name \in TemplateNames |-> None]

NoTemplateCall ==
    [op |-> "__init__", arg |-> NonStr(FALSE), read |-> FALSE,
     returned |-> None, cache |-> NoTemplates, active |-> None,
     files |-> NoTemplates]

TemplateCall(op, arg, read, returned) ==
    [op |-> op, arg |-> arg, read |-> read, returned |-> returned,
     cache |-> templates_cache, active |-> active_template, files |-> t_files]

TemplateIdle ==
    /\ t_files = NoTemplates
    /\ templates_cache = NoTemplates
    /\ active_template = None
    /\ t_call = NoTemplateCall
    /\ last_loaded = None

\* if not template_name or not isinstance(template_name, str): return None
valid_name(arg) == arg.truthy /\ arg.type = "str"

\* if template_name in self._templates_cache: self.active_template =
\* template_name
hit_active_unchanged(template_name) == active_template

hit_active(template_name) == Some(template_name)

\* load_template(template_name); `readable` is whether open and read succeed
load_template(arg, readable) ==
    LET template_name == arg.name
    IN IF ~valid_name(arg)
       THEN /\ t_call' = TemplateCall("load_template", arg, FALSE, None)
            /\ UNCHANGED <<t_files, templates_cache, active_template,
                           last_loaded>>
       ELSE IF templates_cache[template_name] # None
       THEN /\ active_template' = hit_active(template_name)
            /\ t_call' = TemplateCall("load_template", arg, FALSE,
                                      templates_cache[template_name])
            /\ last_loaded' = Some([name |-> template_name,
                                    text |-> Get(templates_cache[template_name])])
            /\ UNCHANGED <<t_files, templates_cache>>
       ELSE IF t_files[template_name] = None \/ ~readable
       THEN /\ t_call' = TemplateCall("load_template", arg, FALSE, None)
            /\ UNCHANGED <<t_files, templates_cache, active_template,
                           last_loaded>>
       ELSE /\ templates_cache' =
                  [templates_cache EXCEPT ![template_name] = t_files[template_name]]
            /\ active_template' = Some(template_name)
            /\ t_call' = TemplateCall("load_template", arg, TRUE,
                                      t_files[template_name])
            /\ last_loaded' = Some([name |-> template_name,
                                    text |-> Get(t_files[template_name])])
            /\ UNCHANGED t_files

\* if not self.active_template: return None;
\* return self._templates_cache.get(self.active_template)
current_template ==
    IF active_template = None \/ active_template = Some("")
    THEN None
    ELSE templates_cache[Get(active_template)]

\* get_current_template()
get_current_template ==
    /\ t_call.op # "get_current_template"
    /\ t_call' = TemplateCall("get_current_template", NonStr(FALSE), FALSE,
                              current_template)
    /\ UNCHANGED <<t_files, templates_cache, active_template, last_loaded>>

\* Someone writes, rewrites or removes a template file.
template_file_changes(name, file) ==
    /\ t_files[name] # file
    /\ t_files' = [t_files EXCEPT ![name] = file]
    /\ UNCHANGED <<templates_cache, active_template, t_call, last_loaded>>

(***************************************************************************)
(* PromptProcessor and its template (prompt_processor.py): __init__,        *)
(* set_template and get_active_template, over the TemplateManager the       *)
(* processor builds for itself.                                             *)
(***************************************************************************)
\* TemplateManager.load_template as a function of the manager's state: what
\* it returns, and the cache and active name it leaves
loaded(held, active, files, arg, readable) ==
    LET template_name == arg.name
    IN IF ~valid_name(arg)
       THEN [returned |-> None, cache |-> held, active |-> active]
       ELSE IF held[template_name] # None
       THEN [returned |-> held[template_name], cache |-> held,
             active |-> Some(template_name)]
       ELSE IF files[template_name] = None \/ ~readable
       THEN [returned |-> None, cache |-> held, active |-> active]
       ELSE [returned |-> files[template_name],
             cache |-> [held EXCEPT ![template_name] = files[template_name]],
             active |-> Some(template_name)]

\* `if not self.system_template`, `if template_content`: None and "" are falsy
truthy(returned) == returned # None /\ returned # Some("")

ProcessorCall(op, arg, readable, returned, raised) ==
    [op |-> op, arg |-> arg, readable |-> readable, returned |-> returned,
     raised |-> raised, text |-> system_template, active |-> active_template, files |-> t_files]

ProcessorIdle ==
    /\ system_template = None
    /\ pp_call = [op |-> "none", arg |-> NonStr(FALSE), readable |-> {},
                  returned |-> "", raised |-> FALSE, text |-> None, active |-> None,
                  files |-> NoTemplates]

\* PromptProcessor.__init__: a new TemplateManager, load_template of the name
\* given, then of "standard", and ProcessingError when neither gives a text
PromptProcessor_init(arg, readable, standard_readable) ==
    LET first == loaded(NoTemplates, None, t_files, arg, readable)
        second == loaded(first.cache, first.active, t_files, Str("standard"),
                         standard_readable)
        last == IF truthy(first.returned) THEN first ELSE second
        could == (IF readable THEN {arg.name} ELSE {})
                    \cup (IF standard_readable THEN {"standard"} ELSE {})
    IN  /\ IF truthy(last.returned)
           THEN /\ system_template' = last.returned
                /\ templates_cache' = last.cache
                /\ active_template' = last.active
                /\ pp_call' = ProcessorCall("__init__", arg, could, "", FALSE)
           ELSE /\ system_template' = None
                /\ templates_cache' = NoTemplates
                /\ active_template' = None
                /\ pp_call' = ProcessorCall("__init__", arg, could, "", TRUE)
        /\ UNCHANGED <<t_files, t_call, last_loaded>>

\* PromptProcessor.set_template
set_template(arg, readable) ==
    /\ system_template # None
    /\ LET r == loaded(templates_cache, active_template, t_files, arg, readable)
       IN  /\ system_template' = IF truthy(r.returned) THEN r.returned
                                 ELSE system_template
           /\ templates_cache' = r.cache
           /\ active_template' = r.active
           /\ pp_call' = ProcessorCall("set_template", arg,
                                       IF readable THEN {arg.name} ELSE {},
                                       IF truthy(r.returned) THEN "True"
                                       ELSE "False", FALSE)
    /\ UNCHANGED <<t_files, t_call, last_loaded>>

\* PromptProcessor.get_active_template: self.template_manager.active_template
\* or ""
get_active_template ==
    /\ system_template # None
    /\ pp_call.op # "get_active_template"
    /\ pp_call' = ProcessorCall("get_active_template", NonStr(FALSE), {},
                                IF active_template = None THEN ""
                                ELSE Get(active_template), FALSE)
    /\ UNCHANGED <<system_template, templateVars>>

(***************************************************************************)
(* POST /api/prompts/process (api/routes/prompt_routes.py): the handler     *)
(* builds a PromptProcessor from the request and the configuration and      *)
(* answers with an envelope.                                                *)
(***************************************************************************)
\* The model identifiers a request or the configuration names
RouteModels ==
    {<<"deepseek", "/", "x">>, <<"openai", "/", "x">>, <<"x", "/", "x">>, <<"x">>}

\* The JSON bodies: no body, or an object with or without content, api_key, model
RouteBodies ==
    {None} \cup
    {Some(d) : d \in [content : {None, Some(""), Some("hello")},
                      api_key : {"", "k"},
                      model : {None} \cup {Some(m) : m \in RouteModels}]}

\* What surrounds the request: the configuration's api_key and model, whether
\* standard.txt loads, and what the vendor answers: 200 with a reply, or not
RouteEnvs ==
    [api_key : {"", "ck"},
     model : RouteModels,
     standard : BOOLEAN,
     vendor : {Some(r) : r \in Replies} \cup {None}]

\* def __init__(self, api_key, template_name, model, temperature,
\* model_manager, output_path, timeout, max_retries, retry_interval,
\* file_extensions)
InitParameters ==
    {"api_key", "template_name", "model", "temperature", "model_manager",
     "output_path", "timeout", "max_retries", "retry_interval",
     "file_extensions"}

\* PromptProcessor(api_key=, template_name=, model=, temperature=, max_tokens=)
RouteKeywords == {"api_key", "template_name", "model", "temperature", "max_tokens"}

\* A call binds its keywords, or raises a TypeError for one that is no parameter
binds(keywords, parameters) == keywords \subseteq parameters

Envelope(code, status, result, cause) ==
    [code |-> code, status |-> status, result |-> result, cause |-> cause]

\* processor.process_content(content) with the vendor's answer: the reply of
\* the vendor call _call_model_api chooses, or a ProcessingError
route_content(model_id, vendor) ==
    LET provider_id == parse_model_id(model_id)[1]
    IN IF provider_id \notin {<<p>> : p \in Providers} \/ vendor = None
       THEN Result("ProcessingError", "", {}, "")
       ELSE on_success(provider_id[1], Get(vendor))

\* the handler, from request.get_json() to the envelope it returns
respond(data, env) ==
    IF data = None \/ Get(data).content = None
    THEN Envelope(400, "error", None, "content")
    ELSE LET d == Get(data)
             api_key == IF d.api_key # "" THEN d.api_key ELSE env.api_key
             model_id == IF d.model # None THEN Get(d.model) ELSE env.model
         IN IF api_key = ""
            THEN Envelope(400, "error", None, "api_key")
            ELSE IF ~binds(RouteKeywords, InitParameters)
            THEN Envelope(500, "error", None, "TypeError")
            ELSE IF ~env.standard
            THEN Envelope(500, "error", None, "ProcessingError")
            ELSE LET result == route_content(model_id, env.vendor)
                 IN IF result.kind = "reply"
                    THEN Envelope(200, "success", Some(result.reply), "")
                    ELSE Envelope(500, "error", None, "ProcessingError")

RouteIdle ==
    /\ r_data = None
    /\ r_env = [api_key |-> "", model |-> <<"x">>, standard |-> FALSE,
                vendor |-> None]
    /\ r_response = Envelope(0, "", None, "")

\* One request is received and answered.
route_process_content(data, env) ==
    /\ r_data' = data
    /\ r_env' = env
    /\ r_response' = respond(data, env)

(***************************************************************************)
(* AnthropicProvider (anthropic_provider.py): fetch_models and the shaping  *)
(* of a listing response by _process_response.  An entry of the response    *)
(* has a "name" or none, and a "description" or none.                       *)
(***************************************************************************)
Sonnet == "claude-3-7-sonnet"

EntryNames == {None, Some(""), Some(Sonnet), Some("claude-3-opus")}

Entries == [name : EntryNames, description : {None, Some("text")}]

\* response.json(): a mapping with or without "models", a list of entries
Listings ==
    UNION {[1..n -> Entries] : n \in 0..MaxEntries}

ListingBodies == {None} \cup {Some(l) : l \in Listings}

\* the descriptor _process_response makes of an entry that has a name
descriptor(entry) ==
    [id |-> Get(entry.name), name |-> Get(entry.name),
     description |-> IF entry.description = None THEN ""
                     ELSE Get(entry.description),
     provider |-> "anthropic"]

\* the descriptor _process_response appends
synthesized ==
    [id |-> Sonnet, name |-> "Claude 3.7 Sonnet",
     description |-> "Claude 3.7 Sonnet", provider |-> "anthropic"]

\* `if model_id:`
named(entry) == entry.name # None /\ entry.name # Some("")

RECURSIVE shaped(_)
shaped(entries) ==
    IF entries = <<>> THEN <<>>
    ELSE IF named(Head(entries))
    THEN <<descriptor(Head(entries))>> \o shaped(Tail(entries))
    ELSE shaped(Tail(entries))

\* _process_response, appending whatever the response holds
process_response_appending(body) ==
    LET models == IF body = None THEN <<>> ELSE shaped(Get(body))
    IN  Append(models, synthesized)

\* AnthropicProvider._process_response; data.get("models", [])
process_response(body) ==
    LET models == IF body = None THEN <<>> ELSE shaped(Get(body))
    IN  IF \E i \in 1..Len(models) : models[i].id = Sonnet
        THEN models
        ELSE Append(models, synthesized)

AnthropicIdle ==
    /\ a_response = None
    /\ a_models = "none"

\* AnthropicProvider.fetch_models: None unless the status is 200
fetch_anthropic(status, body) ==
    /\ a_response = None
    /\ a_response' = Some([status_code |-> status, json |-> body])
    /\ a_models' = IF status # 200 THEN None
                   ELSE Some(process_response(body))

\* the provider is used again
fetch_anthropic_again ==
    /\ a_response # None
    /\ a_response' = None
    /\ a_models' = "none"

(***************************************************************************)
(* The enhanced command line (enhanced_cli.py): main and process_files, one *)
(* process after another on the same checkpoint directory.  A step is one   *)
(* TaskManager call or one answer of the user, with what main does around   *)
(* it; cli_pc names the call main is about to make.                         *)
(***************************************************************************)
Modes == {"normal", "resume", "report"}

\* The variables clear_sensitive_data resets.  An environment gives each of
\* them <<>> when it is not set, and its value otherwise, "" among the values.
KeyNames == {"OPENAI_API_KEY", "ANTHROPIC_API_KEY", "OPENROUTER_API_KEY"}

Environments == [KeyNames -> {None, Some(""), Some("key")}]

NoKeys == [name \in KeyNames |-> None]

\* clear_sensitive_data, with `if name in os.environ` left out
clear_sensitive_data_all(env) == [name \in KeyNames |-> Some("")]

\* clear_sensitive_data: `if name in os.environ: os.environ[name] = ""`
clear_sensitive_data(env) ==
    [name \in KeyNames |-> IF env[name] # None THEN Some("") ELSE None]

\* os.path.isdir(input_path)
isdir(path) == path = "in_dir"

\* sys.exit(code) inside main's try, after the message printed before it:
\* the finally clause runs clear_sensitive_data, then the process and its
\* locals are gone
Exit_from(env, code, msg) ==
    /\ cli_pc' = "shell"
    /\ environ' = clear_sensitive_data(env)
    /\ UNCHANGED shell_env
    /\ exit_code' = Some(code)
    /\ message' = msg
    /\ config' = None
    /\ unfinished_task' = FALSE
    /\ run_failed' = 0

Exit(code, msg) == Exit_from(environ, code, msg)

CliIdle ==
    /\ cli_pc = "shell"
    /\ args = "normal"
    /\ config = None
    /\ unfinished_task = FALSE
    /\ run_failed = 0
    /\ exit_code = None
    /\ message = ""
    /\ shell_env = NoKeys
    /\ environ = NoKeys

\* A process that has made no TaskManager call yet.
NoCall == Call("none", None, FALSE, 0, None)

\* main, to its first TaskManager call or question: a new process, which holds
\* no task and has the shell's environment; run_startup_sequence may fail
main(mode, started) ==
    /\ cli_pc = "shell"
    /\ args' = mode
    /\ IF ~started
       THEN /\ Exit_from(shell_env, 1, "startup_failed")
            /\ current_task' = None
            /\ last_call' = NoCall
            /\ UNCHANGED <<now, checkpoints, next_id>>
       ELSE /\ exit_code' = None
            /\ message' = ""
            /\ environ' = shell_env
            /\ UNCHANGED shell_env
            /\ UNCHANGED <<config, unfinished_task, run_failed>>
            /\ IF mode = "normal"
               THEN /\ cli_pc' = "collect"
                    /\ current_task' = None
                    /\ last_call' = NoCall
                    /\ UNCHANGED <<now, checkpoints, next_id>>
               ELSE /\ cli_pc' = "load"
                    /\ TaskManager_init

\* main --report: load_latest_task, the report, sys.exit
main_report ==
    /\ cli_pc = "load"
    /\ args = "report"
    /\ load_latest_task
    /\ IF last_call'.task # None
       THEN Exit(0, "report")
       ELSE Exit(1, "no_last_task")
    /\ UNCHANGED args

\* main --resume: load_latest_task, then `if last_task and last_task.status ==
\* "paused"`
main_resume ==
    /\ cli_pc = "load"
    /\ args = "resume"
    /\ load_latest_task
    /\ LET last_task == last_call'.task
       IN  IF last_task # None /\ Get(last_task).status = "paused"
           THEN /\ cli_pc' = "collect"
                /\ config' = Some(Get(last_task).input_path)
                /\ message' = "resuming"
                /\ UNCHANGED <<unfinished_task, run_failed, exit_code, shell_env,
                             environ>>
           ELSE Exit(1, "no_resumable_task")
    /\ UNCHANGED args

\* What main asks the user before process_files: collect_configuration, or
\* collect_api_keys and select_provider of a resumed task
collect(path, answered) ==
    /\ cli_pc = "collect"
    /\ IF answered
       THEN /\ cli_pc' = "process_files"
            /\ config' = IF args = "resume" THEN config ELSE Some(path)
            /\ UNCHANGED <<unfinished_task, run_failed, exit_code, message,
                         shell_env, environ>>
       ELSE Exit(1, IF args = "resume" THEN "no_api_key" ELSE "no_config")
    /\ UNCHANGED args
    /\ UNCHANGED taskVars

\* process_files: task_manager = TaskManager()
process_files_enter ==
    /\ cli_pc = "process_files"
    /\ TaskManager_init
    /\ cli_pc' = "pf_load"
    /\ UNCHANGED <<args, shell_env, environ, config, unfinished_task,
                   run_failed, exit_code, message>>

\* process_files: load_latest_task and, for a task of the same input path, the
\* user's answer to "continue?"
process_files_load(answer) ==
    /\ cli_pc = "pf_load"
    /\ load_latest_task
    /\ LET task == last_call'.task
       IN  unfinished_task' = /\ task # None
                              /\ Get(task).input_path = Get(config)
                              /\ answer
    /\ cli_pc' = "pf_create"
    /\ UNCHANGED <<args, shell_env, environ, config, run_failed, exit_code,
                   message>>

\* process_files: the processor is built, and `if not unfinished_task:
\* task_manager.create_task(...)`
process_files_create ==
    /\ cli_pc = "pf_create"
    /\ IF unfinished_task
       THEN UNCHANGED taskVars
       ELSE create_task(Get(config))
    /\ cli_pc' = IF isdir(Get(config)) THEN "dir_setup" ELSE "file"
    /\ UNCHANGED <<args, shell_env, environ, config, unfinished_task,
                   run_failed, exit_code, message>>

\* process_files, directory: the files are counted and the progress display set
\* up, outside the try that catches KeyboardInterrupt
directory_setup ==
    /\ cli_pc = "dir_setup"
    /\ cli_pc' = "directory"
    /\ UNCHANGED <<args, shell_env, environ, config, unfinished_task,
                   run_failed, exit_code, message>>
    /\ UNCHANGED taskVars

\* process_directory: the file_processed callback
file_callback(success) ==
    /\ cli_pc = "directory"
    /\ update_progress(success, 0)
    /\ run_failed' = IF success THEN run_failed ELSE run_failed + 1
    /\ UNCHANGED <<cli_pc, args, shell_env, environ, config, unfinished_task,
                   exit_code, message>>

\* process_directory: the file_skipped callback
skip_callback ==
    /\ cli_pc = "directory"
    /\ skip_file
    /\ UNCHANGED cliVars

\* process_directory returns: complete_task, the report, and main's exit code
\* from stats.get("failed", 0) == 0
directory_done ==
    /\ cli_pc = "directory"
    /\ complete_task
    /\ IF run_failed = 0 THEN Exit(0, "done") ELSE Exit(1, "errors")
    /\ UNCHANGED args

\* except KeyboardInterrupt in process_files: pause_task, return False, and
\* main exits as after any run that was not a success
directory_interrupt ==
    /\ cli_pc = "directory"
    /\ pause_task
    /\ Exit(1, "paused")
    /\ UNCHANGED args

\* process_files, single file: process_file and update_progress
file_processed(result) ==
    /\ cli_pc = "file"
    /\ update_progress(result, 0)
    /\ run_failed' = IF result THEN 0 ELSE 1
    /\ cli_pc' = "file_done"
    /\ UNCHANGED <<args, shell_env, environ, config, unfinished_task, exit_code,
                   message>>

\* process_files, single file: complete_task and return result
file_done ==
    /\ cli_pc = "file_done"
    /\ complete_task
    /\ IF run_failed = 0 THEN Exit(0, "done") ELSE Exit(1, "errors")
    /\ UNCHANGED args

\* except ProcessingError / except Exception in process_files: the current
\* task, if any, is failed, and main exits 1
process_files_raise ==
    /\ cli_pc \in {"pf_create", "dir_setup", "directory", "file"}
    /\ IF current_task # None
       THEN fail_task
       ELSE UNCHANGED taskVars
    /\ Exit(1, "processing_error")
    /\ UNCHANGED args

\* except KeyboardInterrupt in main: a new TaskManager, which has no current
\* task, so nothing is paused; sys.exit(130)
main_interrupt ==
    /\ cli_pc \in {"load", "collect", "process_files", "pf_load", "pf_create",
                   "dir_setup", "file", "file_done"}
    /\ TaskManager_init
    /\ Exit(130, "interrupted")
    /\ UNCHANGED args

\* except Exception in main: anything but a ProcessingError that is raised
\* outside the try of process_files; the message, and sys.exit(1)
main_exception ==
    /\ cli_pc \in {"load", "collect", "process_files", "pf_load"}
    /\ Exit(1, "unhandled_exception")
    /\ UNCHANGED args
    /\ UNCHANGED taskVars

(***************************************************************************)
(* process_files on a directory, with the files of the walk and the task's  *)
(* stats: enhanced_cli.py counts the files, then process_directory walks    *)
(* them and reports each through the callbacks, which call update_progress  *)
(* and skip_file.  Of the tasks a run finds, the one continued here is the   *)
(* task an interrupted run has paused.                                      *)
(***************************************************************************)
\* TaskState.__init__, the status and the stats
NewRunTask ==
    [status |-> "running", total |-> 0, processed |-> 0, success |-> 0,
     failed |-> 0, skipped |-> 0, failed_files |-> <<>>,
     processed_files |-> <<>>]

\* TaskState.update_progress, the stats
run_update_progress(task, file_path, success) ==
    [task EXCEPT !.processed = @ + 1,
                 !.processed_files = Append(@, file_path),
                 !.success = IF success THEN @ + 1 ELSE @,
                 !.failed = IF success THEN @ ELSE @ + 1,
                 !.failed_files = IF success THEN @ ELSE Append(@, file_path)]

\* process_files: the files counted for the progress display, with the
\* extensions of the processor as they are before process_directory is called
\* (`"_optimized" not in file and (not processor.file_extensions or file_ext
\* in processor.file_extensions)`)
total_files(files, extensions) ==
    Cardinality({i \in 1..Len(files) :
                    /\ ~files[i].optimized
                    /\ \/ extensions = None
                       \/ Get(extensions) = {}
                       \/ lower(files[i].ext) \in Get(extensions)})

\* load_latest_task: the paused task of the directory, resumed
unfinished(task) ==
    IF task # None /\ Get(task).status = "paused"
    THEN Some([Get(task) EXCEPT !.status = "running"])
    ELSE None

RunIdle ==
    /\ run_pc = "shell"
    /\ run_task = None
    /\ run_continued = FALSE
    /\ run_count = 0

\* process_files, to the call of process_directory: the unfinished task is
\* continued when the user agrees, a task is created otherwise, the files are
\* counted into stats["total"]; the processor is new, its file_extensions
\* None, and process_directory is given the callbacks and no extensions
process_files_directory(answer) ==
    /\ run_pc = "shell"
    /\ LET found == unfinished(run_task)
           continue == found # None /\ answer
           task == IF continue THEN Get(found) ELSE NewRunTask
       IN  /\ run_continued' = continue
           /\ run_task' = Some([task EXCEPT !.total = total_files(d_files, None)])
    /\ run_pc' = "directory"
    /\ run_count' = run_count + 1
    /\ d_status' = "called"
    /\ file_extensions' = None
    /\ callbacks' = TRUE
    /\ d_next' = 0
    /\ stats' = NoStats
    /\ visits' = <<>>
    /\ cb_calls' = <<>>
    /\ UNCHANGED <<d_exists, d_files>>

\* process_directory begins its walk
run_process_directory ==
    /\ run_pc = "directory"
    /\ process_directory
    /\ UNCHANGED runVars

\* a file the walk skips: skip_callback, which calls skip_file
run_skip_file ==
    /\ run_pc = "directory"
    /\ skip_walk_file(FALSE)
    /\ run_task' = Some([Get(run_task) EXCEPT !.skipped = @ + 1])
    /\ UNCHANGED <<run_pc, run_continued, run_count>>

\* a file the walk counts: file_callback, which calls update_progress
run_process_file(outcome) ==
    /\ run_pc = "directory"
    /\ process_walk_file(outcome, FALSE, FALSE)
    /\ run_task' = Some(run_update_progress(Get(run_task), d_next,
                                            outcome = "written"))
    /\ UNCHANGED <<run_pc, run_continued, run_count>>

\* process_directory returns: complete_task
run_complete ==
    /\ run_pc = "directory"
    /\ process_directory_return
    /\ run_task' = Some([Get(run_task) EXCEPT !.status = "completed"])
    /\ run_pc' = "shell"
    /\ UNCHANGED <<run_continued, run_count>>

\* KeyboardInterrupt while process_directory runs: pause_task, return False
run_interrupt ==
    /\ run_pc = "directory"
    /\ d_status \in {"called", "walking"}
    /\ d_status' = "raised"
    /\ run_task' = Some([Get(run_task) EXCEPT !.status = "paused"])
    /\ run_pc' = "shell"
    /\ UNCHANGED <<run_continued, run_count>>
    /\ UNCHANGED <<d_exists, d_files, file_extensions, callbacks, d_next, stats,
                   visits, cb_calls>>

(***************************************************************************)
(* The configuration of the server (api/routes/config_routes.py and         *)
(* api/routes/prompt_routes.py).  Each module constructs its own            *)
(* ConfigManager when it is imported, both on the default config_path.  The *)
(* handlers of PUT /api/config/ and PUT /api/config/<key> run on the        *)
(* threads of the server, as steps: the assignment of update_config, the    *)
(* evaluation of self.config for save_config, the open that truncates the   *)
(* file, the write of the dump when the file is closed, and the assignment  *)
(* self.config = config.  A mapping is an object: update_config changes the *)
(* one self.config refers to, save_config makes self.config refer to the    *)
(* one it was given.                                                        *)
(***************************************************************************)
Threads == {1, 2}

\* the object load_config made, and the body of the request of each thread
LoadedObject == 0

Objects == {LoadedObject} \cup Threads

\* the "config" of the body of a PUT /api/config/
ServerBodies == {bind(default_config, << <<"model">> >>, "v"), empty_config}

\* the <key> and the "value" of a PUT /api/config/<key>
ServerKeys ==
    {<<"api_key">>, <<"parameters", ".", "api_key">>,
     <<"api_key", ".", "api_key">>}

ServerValues == {"v", "w"}

NoRequest ==
    [kind |-> "none", key |-> <<>>, value |-> "", body |-> empty_config,
     pc |-> "idle", config |-> LoadedObject, opened_at |-> 0,
     returned |-> None]

ServerIdle ==
    /\ sv_file = NoConfigFile
    /\ sv_heap = [o \in Objects |-> empty_config]
    /\ sv_config = LoadedObject
    /\ sv_prompt_config = empty_config
    /\ sv_req = [t \in Threads |-> NoRequest]
    /\ sv_writes = 0
    /\ sv_overlap = FALSE
    /\ sv_served = 0
    /\ sv_process = None

\* whether a thread other than t is handling a request
Handling(t) ==
    \E u \in Threads \ {t} : sv_req[u].pc \notin {"idle", "returned"}

\* PUT /api/config/: config = data['config'], config_manager.save_config(config)
put_config(t, body) ==
    /\ sv_req[t].pc = "idle"
    /\ sv_heap' = [sv_heap EXCEPT ![t] = body]
    /\ sv_req' = [sv_req EXCEPT ![t] =
                     [NoRequest EXCEPT !.kind = "put", !.body = body,
                                       !.config = t, !.pc = "save_config"]]
    /\ sv_overlap' = (sv_overlap \/ Handling(t))
    /\ UNCHANGED <<sv_file, sv_config, sv_prompt_config, sv_writes,
                   sv_served, sv_process>>

\* PUT /api/config/<key>: config_manager.update_config(key, value), up to the
\* assignment into the mapping self.config refers to; an exception gives False
put_config_value(t, key, value) ==
    /\ sv_req[t].pc = "idle"
    /\ LET assigned == assign(sv_heap[sv_config], key, value)
       IN /\ sv_heap' = [sv_heap EXCEPT ![sv_config] = assigned.config]
          /\ sv_req' = [sv_req EXCEPT ![t] =
                [NoRequest EXCEPT
                    !.kind = "put_value", !.key = key, !.value = value,
                    !.pc = IF assigned.raised THEN "returned" ELSE "assigned",
                    !.returned = IF assigned.raised THEN Some(FALSE) ELSE None]]
    /\ sv_overlap' = (sv_overlap \/ Handling(t))
    /\ UNCHANGED <<sv_file, sv_config, sv_prompt_config, sv_writes,
                   sv_served, sv_process>>

\* return self.save_config(self.config): the argument is what self.config
\* refers to now
update_config_save(t) ==
    /\ sv_req[t].pc = "assigned"
    /\ sv_req' = [sv_req EXCEPT ![t].config = sv_config,
                                ![t].pc = "save_config"]
    /\ UNCHANGED <<sv_file, sv_heap, sv_config, sv_prompt_config, sv_writes,
                   sv_overlap, sv_served, sv_process>>

\* with open(self.config_path, 'w'): the file is truncated
save_config_open(t) ==
    /\ sv_req[t].pc = "save_config"
    /\ sv_file' = InvalidJson
    /\ sv_req' = [sv_req EXCEPT ![t].opened_at = sv_writes,
                                ![t].pc = "opened"]
    /\ UNCHANGED <<sv_heap, sv_config, sv_prompt_config, sv_writes,
                   sv_overlap, sv_served, sv_process>>

\* json.dump(config, f) and the end of the with block: the text is written
\* from the start of the file.  Over a text another thread wrote since the
\* open, a shorter text leaves the end of the other (whole = FALSE).
save_config_dump(t, whole) ==
    /\ sv_req[t].pc = "opened"
    /\ sv_writes = sv_req[t].opened_at => whole
    /\ sv_file' = IF whole THEN JsonFile(sv_heap[sv_req[t].config])
                  ELSE InvalidJson
    /\ sv_writes' = sv_writes + 1
    /\ sv_req' = [sv_req EXCEPT ![t].pc = "dumped"]
    /\ UNCHANGED <<sv_heap, sv_config, sv_prompt_config, sv_overlap,
                   sv_served, sv_process>>

\* self.config = config; return True
save_config_assign(t) ==
    /\ sv_req[t].pc = "dumped"
    /\ sv_config' = sv_req[t].config
    /\ sv_req' = [sv_req EXCEPT ![t].pc = "returned",
                                ![t].returned = Some(TRUE)]
    /\ UNCHANGED <<sv_file, sv_heap, sv_prompt_config, sv_writes, sv_overlap,
                   sv_served, sv_process>>

\* The thread has answered and takes the next request.
next_request(t) ==
    /\ sv_req[t].pc = "returned"
    /\ sv_served < MaxServed
    /\ sv_served' = sv_served + 1
    /\ sv_req' = [sv_req EXCEPT ![t].pc = "idle"]
    /\ UNCHANGED <<sv_file, sv_heap, sv_config, sv_prompt_config, sv_writes,
                   sv_overlap, sv_process>>

\* config_manager.get_config_value(key, default)
config_value(cfg, key, default) ==
    IF lookup(cfg, key) = None THEN default ELSE Get(lookup(cfg, key))

\* data.get(name) or config_manager.get_config_value(name, default)
given_or_config(given, cfg, key, default) ==
    IF given # "" THEN given ELSE config_value(cfg, key, default)

\* whether the last PUT of a thread returned success
put_succeeded ==
    \E t \in Threads : sv_req[t].returned = Some(TRUE)

\* POST /api/prompts/process, lines 52-61: the api_key and the model the
\* handler uses, given ones or those of the module's config_manager
process_content_values(given_key, given_model) ==
    /\ \A t \in Threads : sv_req[t].pc \in {"idle", "returned"}
    /\ sv_process' =
          Some([given |-> [api_key |-> given_key, model |-> given_model],
                api_key |-> given_or_config(given_key, sv_prompt_config,
                                            <<"api_key">>, ""),
                model |-> given_or_config(given_model, sv_prompt_config,
                                          <<"model">>, "openai/gpt-4.1"),
                config |-> sv_heap[sv_config],
                after_put |-> put_succeeded])
    /\ UNCHANGED <<sv_file, sv_heap, sv_config, sv_prompt_config, sv_req,
                   sv_writes, sv_overlap, sv_served>>

\* The server has imported both modules on a file holding `cfg`.
ServerStarted(cfg) ==
    /\ sv_file = JsonFile(cfg)
    /\ sv_heap = [o \in Objects |-> IF o = LoadedObject THEN cfg
                                     ELSE empty_config]
    /\ sv_config = LoadedObject
    /\ sv_prompt_config = cfg
    /\ sv_req = [t \in Threads |-> NoRequest]
    /\ sv_writes = 0
    /\ sv_overlap = FALSE
    /\ sv_served = 0
    /\ sv_process = None

(***************************************************************************)
(* The messages of a template (template_manager.py validate_template,      *)
(* prompt_processor.py _extract_messages_from_template).  A template is a   *)
(* sequence of pieces: the marker "## System Message", the marker           *)
(* "## User Message", the placeholder "{PROMPT}", a white space, or text.   *)
(***************************************************************************)
SystemMarker == "## System Message"

UserMarker == "## User Message"

Placeholder == "{PROMPT}"

Pieces == {SystemMarker, UserMarker, Placeholder, " ", "text"}

Templates == UNION {[1..n -> Pieces] : n \in 0..MaxPieces}

\* marker in template_content
holds(text, piece) == \E i \in 1..Len(text) : text[i] = piece

\* TemplateManager.validate_template
validate_template(template_content) ==
    /\ holds(template_content, SystemMarker)
    /\ holds(template_content, UserMarker)
    /\ holds(template_content, Placeholder)

\* text.split(marker): the texts between the occurrences of the marker
RECURSIVE split_text(_, _)
split_text(text, marker) ==
    IF ~holds(text, marker)
    THEN <<text>>
    ELSE LET at == CHOOSE i \in 1..Len(text) :
                      text[i] = marker /\ \A j \in 1..(i - 1) : text[j] # marker
         IN <<SubSeq(text, 1, at - 1)>>
                \o split_text(SubSeq(text, at + 1, Len(text)), marker)

\* text.strip()
RECURSIVE strip(_)
strip(text) ==
    IF text = <<>> THEN text
    ELSE IF Head(text) = " " THEN strip(Tail(text))
    ELSE IF text[Len(text)] = " " THEN strip(SubSeq(text, 1, Len(text) - 1))
    ELSE text

\* user_msg.replace("{PROMPT}", content)
RECURSIVE replace(_, _)
replace(text, content) ==
    IF text = <<>> THEN <<>>
    ELSE (IF Head(text) = Placeholder THEN content ELSE <<Head(text)>>)
            \o replace(Tail(text), content)

\* _extract_messages_from_template, template_text being self.system_template
extract_messages_from_template(template_text) ==
    LET parts == split_text(template_text, SystemMarker)
        system_msg == IF Len(parts) > 1
                      THEN strip(split_text(parts[2], UserMarker)[1])
                      ELSE <<>>
        user_parts == split_text(template_text, UserMarker)
        user_msg == IF Len(user_parts) > 1 THEN strip(user_parts[2]) ELSE <<>>
    IN IF template_text = <<>> \/ system_msg = <<>> \/ user_msg = <<>>
       THEN [raised |-> TRUE, system_msg |-> <<>>, user_msg |-> <<>>]
       ELSE [raised |-> FALSE, system_msg |-> system_msg, user_msg |-> user_msg]

NoExtraction ==
    [called |-> FALSE, template |-> <<>>, content |-> <<>>, valid |-> FALSE,
     raised |-> FALSE, system_msg |-> <<>>, user_msg |-> <<>>, sent |-> <<>>]

ExtractIdle == x_call = NoExtraction

\* process_content(content) of a processor whose system_template is
\* `template`, to the vendor call: the two messages, the placeholder replaced
process_content_messages(template, content) ==
    LET extracted == extract_messages_from_template(template)
    IN x_call' = [called |-> TRUE, template |-> template, content |-> content,
                  valid |-> validate_template(template),
                  raised |-> extracted.raised,
                  system_msg |-> extracted.system_msg,
                  user_msg |-> extracted.user_msg,
                  sent |-> replace(extracted.user_msg, content)]

(***************************************************************************)
(* What bounds a behaviour: the ids create_task may still generate, the     *)
(* calls a task may still take, the time that may still pass.               *)
(***************************************************************************)
CanCreate(maxTasks) == next_id < maxTasks

CanProgress(success, maxProcessed, maxFailed) ==
    current_task # None =>
        /\ Get(current_task).processed < maxProcessed
        /\ success \/ Get(current_task).failed < maxFailed

CanSkip(maxSkipped) ==
    current_task # None => Get(current_task).skipped < maxSkipped

CanPass(ticks) == now + ticks * TickStep <= MaxTime

(***************************************************************************)
(* SpecTask: the operations that create, load and transition tasks, in any  *)
(* order and by any number of managers, on a directory that starts empty or *)
(* with one checkpoint <0>.json left by an earlier writer, of any status,   *)
(* possibly not parseable.  No time passes: the files are ordered by their  *)
(* writes.  update_progress and skip_file, which change neither a status    *)
(* nor a file name, are in SpecProgress.                                    *)
(***************************************************************************)
ForeignFile(status, valid) ==
    File(0, FALSE, valid, 0,
         to_dict([TaskState_init(0, "in_dir", 0) EXCEPT !.status = status]))

InitialDirs ==
    {<<>>} \cup {<<ForeignFile(s, TRUE)>> : s \in Statuses}
           \cup {<<ForeignFile("running", FALSE)>>}

InitTask ==
    /\ now = 0
    /\ current_task = None
    /\ checkpoints \in InitialDirs
    /\ next_id = 0
    /\ last_call = Call("__init__", None, FALSE, 0, None)
    /\ VendorIdle
    /\ CliIdle
    /\ ContentIdle
    /\ DirIdle
    /\ FileIdle
    /\ ModelsIdle
    /\ ConfigIdle
    /\ TemplateIdle
    /\ RouteIdle
    /\ AnthropicIdle
    /\ ParseIdle
    /\ ProcessorIdle
    /\ RunIdle
    /\ ServerIdle
    /\ ExtractIdle

NextTask ==
    \/ TaskManager_init /\ UNCHANGED notTask
    \/ CanCreate(MaxTasks) /\ create_task("in_dir") /\ UNCHANGED notTask
    \/ load_latest_task /\ UNCHANGED notTask
    \/ complete_task /\ UNCHANGED notTask
    \/ fail_task /\ UNCHANGED notTask
    \/ pause_task /\ UNCHANGED notTask
    \/ resume_task /\ UNCHANGED notTask

SpecTask == InitTask /\ [][NextTask]_vars

(***************************************************************************)
(* SpecProgress: one task from create_task on, its calls in any order,      *)
(* while time passes between the calls and inside update_progress.          *)
(***************************************************************************)
InitProgress ==
    /\ now = 0
    /\ current_task = None
    /\ checkpoints = <<>>
    /\ next_id = 0
    /\ last_call = Call("__init__", None, FALSE, 0, None)
    /\ VendorIdle
    /\ CliIdle
    /\ ContentIdle
    /\ DirIdle
    /\ FileIdle
    /\ ModelsIdle
    /\ ConfigIdle
    /\ TemplateIdle
    /\ RouteIdle
    /\ AnthropicIdle
    /\ ParseIdle
    /\ ProcessorIdle
    /\ RunIdle
    /\ ServerIdle
    /\ ExtractIdle

NextProgress ==
    \/ CanCreate(1) /\ create_task("in_dir") /\ UNCHANGED notTask
    \/ \E ok \in BOOLEAN, ticks \in 0..MaxCallTicks :
          /\ CanProgress(ok, MaxProcessed, MaxFailed)
          /\ CanPass(ticks)
          /\ update_progress(ok, ticks)
          /\ UNCHANGED notTask
    \/ CanSkip(MaxSkipped) /\ skip_file /\ UNCHANGED notTask
    \/ complete_task /\ UNCHANGED notTask
    \/ fail_task /\ UNCHANGED notTask
    \/ pause_task /\ UNCHANGED notTask
    \/ resume_task /\ UNCHANGED notTask
    \/ CanPass(1) /\ Tick /\ UNCHANGED notTask

SpecProgress == InitProgress /\ [][NextProgress]_vars

(***************************************************************************)
(* SpecVendor: one vendor call of a processor built with any of the three   *)
(* providers, any max_retries from -1 (the command line takes any integer)  *)
(* and a retry interval; each requests.post is answered in any way.         *)
(***************************************************************************)
TaskIdle ==
    /\ now = 0
    /\ current_task = None
    /\ checkpoints = <<>>
    /\ next_id = 0
    /\ last_call = Call("__init__", None, FALSE, 0, None)

InitVendor ==
    /\ TaskIdle
    /\ provider \in Providers
    /\ max_retries \in -1..MaxRetries
    /\ retry_interval \in RetryIntervals
    /\ v_pc = "loop"
    /\ current_retry = 0
    /\ requests = 0
    /\ sleeps = <<>>
    /\ response = NoResponse
    /\ v_result = NoResult
    /\ CliIdle
    /\ ContentIdle
    /\ DirIdle
    /\ FileIdle
    /\ ModelsIdle
    /\ ConfigIdle
    /\ TemplateIdle
    /\ RouteIdle
    /\ AnthropicIdle
    /\ ParseIdle
    /\ ProcessorIdle
    /\ RunIdle
    /\ ServerIdle
    /\ ExtractIdle

NextVendor ==
    \/ \E content \in Replies : post_ok(content) /\ UNCHANGED notVendor
    \/ post_bad_body /\ UNCHANGED notVendor
    \/ \E status \in ErrorStatuses : post_status(status) /\ UNCHANGED notVendor
    \/ post_timeout /\ UNCHANGED notVendor
    \/ post_connection_error /\ UNCHANGED notVendor
    \/ post_exception /\ UNCHANGED notVendor
    \/ loop_exit /\ UNCHANGED notVendor

SpecVendor == InitVendor /\ [][NextVendor]_vars

(***************************************************************************)
(* SpecCli: runs of the enhanced command line, one after another, on a      *)
(* checkpoint directory that starts empty; the user answers and interrupts  *)
(* as they like, the files succeed, fail or are skipped.                    *)
(***************************************************************************)
InitCli ==
    /\ TaskIdle
    /\ VendorIdle
    /\ CliIdle
    /\ ContentIdle
    /\ DirIdle
    /\ FileIdle
    /\ ModelsIdle
    /\ ConfigIdle
    /\ TemplateIdle
    /\ RouteIdle
    /\ AnthropicIdle
    /\ ParseIdle
    /\ ProcessorIdle
    /\ RunIdle
    /\ ServerIdle
    /\ ExtractIdle

NextCli ==
    \/ \E mode \in Modes, started \in BOOLEAN :
          main(mode, started) /\ UNCHANGED notCli
    \/ main_report /\ UNCHANGED notCli
    \/ main_resume /\ UNCHANGED notCli
    \/ \E path \in Paths, answered \in BOOLEAN :
          collect(path, answered) /\ UNCHANGED notCli
    \/ process_files_enter /\ UNCHANGED notCli
    \/ \E answer \in BOOLEAN : process_files_load(answer) /\ UNCHANGED notCli
    \/ /\ unfinished_task \/ CanCreate(MaxTasks)
       /\ process_files_create
       /\ UNCHANGED notCli
    \/ directory_setup /\ UNCHANGED notCli
    \/ \E success \in BOOLEAN :
          /\ CanProgress(success, MaxCliProcessed, MaxFailed)
          /\ file_callback(success)
          /\ UNCHANGED notCli
    \/ CanSkip(MaxSkipped) /\ skip_callback /\ UNCHANGED notCli
    \/ directory_done /\ UNCHANGED notCli
    \/ directory_interrupt /\ UNCHANGED notCli
    \/ \E result \in BOOLEAN :
          /\ CanProgress(result, MaxCliProcessed, MaxFailed)
          /\ file_processed(result)
          /\ UNCHANGED notCli
    \/ file_done /\ UNCHANGED notCli
    \/ process_files_raise /\ UNCHANGED notCli
    \/ main_interrupt /\ UNCHANGED notCli
    \/ main_exception /\ UNCHANGED notCli

SpecCli == InitCli /\ [][NextCli]_vars

(***************************************************************************)
(* SpecContent: one process_content of a processor configured with any      *)
(* model identifier, the vendor answering each request in any way.          *)
(***************************************************************************)
InitContent ==
    /\ TaskIdle
    /\ CliIdle
    /\ DirIdle
    /\ FileIdle
    /\ model \in ModelIds
    /\ c_pc = "start"
    /\ calls = <<>>
    /\ c_result = ContentResult("none", "", "")
    /\ provider = "deepseek"
    /\ max_retries \in -1..MaxContentRetries
    /\ retry_interval = 3
    /\ v_pc = "idle"
    /\ current_retry = 0
    /\ requests = 0
    /\ sleeps = <<>>
    /\ response = NoResponse
    /\ v_result = NoResult
    /\ ModelsIdle
    /\ ConfigIdle
    /\ TemplateIdle
    /\ RouteIdle
    /\ AnthropicIdle
    /\ ParseIdle
    /\ ProcessorIdle
    /\ RunIdle
    /\ ServerIdle
    /\ ExtractIdle

NextContent ==
    \/ \E extracted \in BOOLEAN : process_content(extracted) /\ UNCHANGED notContent
    \/ \E content \in Replies : post_ok(content) /\ UNCHANGED notVendor
    \/ post_bad_body /\ UNCHANGED notVendor
    \/ \E status \in ErrorStatuses : post_status(status) /\ UNCHANGED notVendor
    \/ post_timeout /\ UNCHANGED notVendor
    \/ post_connection_error /\ UNCHANGED notVendor
    \/ post_exception /\ UNCHANGED notVendor
    \/ loop_exit /\ UNCHANGED notVendor
    \/ process_content_return /\ UNCHANGED notContent

SpecContent == InitContent /\ [][NextContent]_vars

(***************************************************************************)
(* SpecDirectory: one process_directory, on any walk of up to MaxWalk       *)
(* files, with any file_extensions argument, with or without callbacks;     *)
(* each file fails or succeeds in any way, each callback invocation raises  *)
(* or returns.                                                              *)
(***************************************************************************)
InitDirectory ==
    /\ TaskIdle
    /\ VendorIdle
    /\ CliIdle
    /\ ContentIdle
    /\ FileIdle
    /\ d_exists \in BOOLEAN
    /\ d_files \in Walks
    /\ file_extensions \in ExtensionArgs
    /\ callbacks \in BOOLEAN
    /\ d_next = 0
    /\ stats = NoStats
    /\ visits = <<>>
    /\ cb_calls = <<>>
    /\ d_status = "called"
    /\ ModelsIdle
    /\ ConfigIdle
    /\ TemplateIdle
    /\ RouteIdle
    /\ AnthropicIdle
    /\ ParseIdle
    /\ ProcessorIdle
    /\ RunIdle
    /\ ServerIdle
    /\ ExtractIdle

NextDirectory ==
    \/ process_directory /\ UNCHANGED notDir
    \/ \E raises \in BOOLEAN : skip_walk_file(raises) /\ UNCHANGED notDir
    \/ \E outcome \in Outcomes, raise1, raise2 \in BOOLEAN :
          /\ callbacks \/ (~raise1 /\ ~raise2)
          /\ process_walk_file(outcome, raise1, raise2)
          /\ UNCHANGED notDir
    \/ process_directory_return /\ UNCHANGED notDir

SpecDirectory == InitDirectory /\ [][NextDirectory]_vars

(***************************************************************************)
(* SpecFile: process_file called again and again on one path, where a file  *)
(* of any text may or may not be; every read, process_content and write     *)
(* goes any way it can.                                                     *)
(***************************************************************************)
InitFile ==
    /\ TaskIdle
    /\ VendorIdle
    /\ CliIdle
    /\ ContentIdle
    /\ DirIdle
    /\ f_disk \in {None} \cup {Some(t) : t \in Texts}
    /\ f_before = f_disk
    /\ f_pc = "idle"
    /\ f_local = NoLocals
    /\ f_result = "none"
    /\ ModelsIdle
    /\ ConfigIdle
    /\ TemplateIdle
    /\ RouteIdle
    /\ AnthropicIdle
    /\ ParseIdle
    /\ ProcessorIdle
    /\ RunIdle
    /\ ServerIdle
    /\ ExtractIdle

NextFile ==
    \/ process_file /\ UNCHANGED notFile
    \/ \E readable \in BOOLEAN : process_file_read(readable) /\ UNCHANGED notFile
    \/ \E outcome \in ContentOutcomes :
          process_file_content(outcome) /\ UNCHANGED notFile
    \/ \E writable \in BOOLEAN : process_file_open(writable) /\ UNCHANGED notFile
    \/ \E stored \in BOOLEAN : process_file_write(stored) /\ UNCHANGED notFile
    \/ \E disk \in {None} \cup {Some(t) : t \in Texts} :
          file_changes(disk) /\ UNCHANGED notFile

SpecFile == InitFile /\ [][NextFile]_vars

(***************************************************************************)
(* SpecModels: get_models called again and again on one ModelManager, for   *)
(* any provider id, forced or not, with fetch_models and the write of the   *)
(* cache file going any way they can, while time passes.                    *)
(***************************************************************************)
InitModels ==
    /\ TaskIdle
    /\ VendorIdle
    /\ CliIdle
    /\ ContentIdle
    /\ DirIdle
    /\ FileIdle
    /\ ModelsIdle
    /\ ConfigIdle
    /\ TemplateIdle
    /\ RouteIdle
    /\ AnthropicIdle
    /\ ParseIdle
    /\ ProcessorIdle
    /\ RunIdle
    /\ ServerIdle
    /\ ExtractIdle

NextModels ==
    \/ \E provider_id \in ProviderIds, force_refresh \in BOOLEAN :
          get_models(provider_id, force_refresh) /\ UNCHANGED notModels
    \/ \E models \in {None} \cup {Some(m) : m \in ModelLists},
          write \in WriteOutcomes :
          fetch_models(models, write) /\ UNCHANGED notModels
    \/ \E step \in ClockSteps : time_passes(step) /\ UNCHANGED notModels

SpecModels == InitModels /\ [][NextModels]_vars

(***************************************************************************)
(* SpecConfig: ConfigManagers constructed on one config_path, where at      *)
(* first no file is, a configuration in its default form or a file that is  *)
(* not JSON; update_config with any key and value, get_config_value, and    *)
(* load_config follow in any order, and every write goes any way it can.    *)
(***************************************************************************)
InitConfig ==
    /\ TaskIdle
    /\ VendorIdle
    /\ CliIdle
    /\ ContentIdle
    /\ DirIdle
    /\ FileIdle
    /\ ModelsIdle
    /\ cm_file \in {NoConfigFile, InvalidJson, JsonFile(default_config)}
    /\ cm_alive = FALSE
    /\ cm_config = empty_config
    /\ cm_default = default_config
    /\ cm_shared = FALSE
    /\ updates = 0
    /\ cm_call = NoConfigCall
    /\ TemplateIdle
    /\ RouteIdle
    /\ AnthropicIdle
    /\ ParseIdle
    /\ ProcessorIdle
    /\ RunIdle
    /\ ServerIdle
    /\ ExtractIdle

NextConfig ==
    \/ \E write \in WriteOutcomes : ConfigManager_init(write) /\ UNCHANGED notConfig
    \/ \E write \in WriteOutcomes :
          ConfigManager_load_config(write) /\ UNCHANGED notConfig
    \/ \E key \in Keys, value \in Values, write \in WriteOutcomes :
          update_config(key, value, write) /\ UNCHANGED notConfig
    \/ \E key \in Keys : get_config_value(key) /\ UNCHANGED notConfig
    \/ \E file \in {NoConfigFile, InvalidJson} :
          config_file_changes(file) /\ UNCHANGED notConfig

SpecConfig == InitConfig /\ [][NextConfig]_vars

(***************************************************************************)
(* SpecTemplate: one TemplateManager on a templates_dir whose files come,   *)
(* change and go; load_template with any argument and get_current_template  *)
(* are called in any order.                                                 *)
(***************************************************************************)
InitTemplate ==
    /\ TaskIdle
    /\ VendorIdle
    /\ CliIdle
    /\ ContentIdle
    /\ DirIdle
    /\ FileIdle
    /\ ModelsIdle
    /\ ConfigIdle
    /\ t_files \in [TemplateNames -> {None} \cup {Some(t) : t \in TemplateTexts}]
    /\ templates_cache = NoTemplates
    /\ active_template = None
    /\ t_call = NoTemplateCall
    /\ last_loaded = None
    /\ RouteIdle
    /\ AnthropicIdle
    /\ ParseIdle
    /\ ProcessorIdle
    /\ RunIdle
    /\ ServerIdle
    /\ ExtractIdle

NextTemplate ==
    \/ \E arg \in TemplateArgs, readable \in BOOLEAN :
          load_template(arg, readable) /\ UNCHANGED notTemplate
    \/ get_current_template /\ UNCHANGED notTemplate
    \/ \E name \in TemplateNames,
          file \in {None} \cup {Some(t) : t \in TemplateTexts} :
          template_file_changes(name, file) /\ UNCHANGED notTemplate

SpecTemplate == InitTemplate /\ [][NextTemplate]_vars

(***************************************************************************)
(* SpecRoute: requests to POST /api/prompts/process, one after another,     *)
(* each with any body, configuration, template directory and vendor answer. *)
(***************************************************************************)
InitRoute ==
    /\ TaskIdle
    /\ VendorIdle
    /\ CliIdle
    /\ ContentIdle
    /\ DirIdle
    /\ FileIdle
    /\ ModelsIdle
    /\ ConfigIdle
    /\ TemplateIdle
    /\ RouteIdle
    /\ AnthropicIdle
    /\ ParseIdle
    /\ ProcessorIdle
    /\ RunIdle
    /\ ServerIdle
    /\ ExtractIdle

NextRoute ==
    \E data \in RouteBodies, env \in RouteEnvs :
        route_process_content(data, env) /\ UNCHANGED notRoute

SpecRoute == InitRoute /\ [][NextRoute]_vars

(***************************************************************************)
(* SpecEnviron: one run of the enhanced command line, started by a shell    *)
(* that has each of the three key variables unset, empty or set, on a       *)
(* checkpoint directory as earlier runs or another writer may have left it. *)
(***************************************************************************)
FirstRun == exit_code = None

InitEnviron ==
    /\ now = 0
    /\ current_task = None
    /\ checkpoints \in InitialDirs
    /\ next_id = 0
    /\ last_call = Call("__init__", None, FALSE, 0, None)
    /\ cli_pc = "shell"
    /\ args = "normal"
    /\ config = None
    /\ unfinished_task = FALSE
    /\ run_failed = 0
    /\ exit_code = None
    /\ message = ""
    /\ shell_env \in Environments
    /\ environ = NoKeys
    /\ VendorIdle
    /\ ContentIdle
    /\ DirIdle
    /\ FileIdle
    /\ ModelsIdle
    /\ ConfigIdle
    /\ TemplateIdle
    /\ RouteIdle
    /\ AnthropicIdle
    /\ ParseIdle
    /\ ProcessorIdle
    /\ RunIdle
    /\ ServerIdle
    /\ ExtractIdle

NextEnviron ==
    \/ \E mode \in Modes, started \in BOOLEAN :
          FirstRun /\ main(mode, started) /\ UNCHANGED notCli
    \/ main_report /\ UNCHANGED notCli
    \/ main_resume /\ UNCHANGED notCli
    \/ \E path \in Paths, answered \in BOOLEAN :
          collect(path, answered) /\ UNCHANGED notCli
    \/ process_files_enter /\ UNCHANGED notCli
    \/ \E answer \in BOOLEAN : process_files_load(answer) /\ UNCHANGED notCli
    \/ /\ unfinished_task \/ CanCreate(MaxTasks)
       /\ process_files_create
       /\ UNCHANGED notCli
    \/ directory_setup /\ UNCHANGED notCli
    \/ \E success \in BOOLEAN :
          /\ CanProgress(success, MaxCliProcessed, MaxFailed)
          /\ file_callback(success)
          /\ UNCHANGED notCli
    \/ CanSkip(MaxSkipped) /\ skip_callback /\ UNCHANGED notCli
    \/ directory_done /\ UNCHANGED notCli
    \/ directory_interrupt /\ UNCHANGED notCli
    \/ \E result \in BOOLEAN :
          /\ CanProgress(result, MaxCliProcessed, MaxFailed)
          /\ file_processed(result)
          /\ UNCHANGED notCli
    \/ file_done /\ UNCHANGED notCli
    \/ process_files_raise /\ UNCHANGED notCli
    \/ main_interrupt /\ UNCHANGED notCli
    \/ main_exception /\ UNCHANGED notCli

SpecEnviron == InitEnviron /\ [][NextEnviron]_vars

(***************************************************************************)
(* SpecAnthropic: fetch_models of the Anthropic provider, one listing       *)
(* response after another.                                                  *)
(***************************************************************************)
InitAnthropic ==
    /\ TaskIdle
    /\ VendorIdle
    /\ CliIdle
    /\ ContentIdle
    /\ DirIdle
    /\ FileIdle
    /\ ModelsIdle
    /\ ConfigIdle
    /\ TemplateIdle
    /\ RouteIdle
    /\ AnthropicIdle
    /\ ParseIdle
    /\ ProcessorIdle
    /\ RunIdle
    /\ ServerIdle
    /\ ExtractIdle

NextAnthropic ==
    \/ \E status \in {200, 500}, body \in ListingBodies :
          fetch_anthropic(status, body) /\ UNCHANGED notAnthropic
    \/ fetch_anthropic_again /\ UNCHANGED notAnthropic

SpecAnthropic == InitAnthropic /\ [][NextAnthropic]_vars

(***************************************************************************)
(* SpecParse: parse_model_id, called with one identifier after another.     *)
(***************************************************************************)
InitParse ==
    /\ TaskIdle
    /\ VendorIdle
    /\ CliIdle
    /\ ContentIdle
    /\ DirIdle
    /\ FileIdle
    /\ ModelsIdle
    /\ ConfigIdle
    /\ TemplateIdle
    /\ RouteIdle
    /\ AnthropicIdle
    /\ ParseIdle
    /\ ProcessorIdle
    /\ RunIdle
    /\ ServerIdle
    /\ ExtractIdle

NextParse ==
    \E model_id \in ModelIds : parse(model_id) /\ UNCHANGED notParse

SpecParse == InitParse /\ [][NextParse]_vars

(***************************************************************************)
(* SpecProcessor: a PromptProcessor is built with any template name, and    *)
(* its template is set and asked for, on a templates directory whose files  *)
(* are there or not, empty or not, and change between the calls.            *)
(***************************************************************************)
InitProcessor ==
    /\ TaskIdle
    /\ VendorIdle
    /\ CliIdle
    /\ ContentIdle
    /\ DirIdle
    /\ FileIdle
    /\ ModelsIdle
    /\ ConfigIdle
    /\ t_files \in [TemplateNames -> {None} \cup {Some(t) : t \in TemplateTexts}]
    /\ templates_cache = NoTemplates
    /\ active_template = None
    /\ t_call = NoTemplateCall
    /\ last_loaded = None
    /\ RouteIdle
    /\ AnthropicIdle
    /\ ParseIdle
    /\ ProcessorIdle
    /\ RunIdle
    /\ ServerIdle
    /\ ExtractIdle

NextProcessor ==
    \/ \E arg \in TemplateArgs, readable \in BOOLEAN, standard_readable \in BOOLEAN :
          PromptProcessor_init(arg, readable, standard_readable)
              /\ UNCHANGED notProcessor
    \/ \E arg \in TemplateArgs, readable \in BOOLEAN :
          set_template(arg, readable) /\ UNCHANGED notProcessor
    \/ get_active_template /\ UNCHANGED notProcessor
    \/ \E name \in TemplateNames,
          file \in {None} \cup {Some(t) : t \in TemplateTexts} :
          /\ template_file_changes(name, file)
          /\ UNCHANGED <<notProcessor, processorVars>>

SpecProcessor == InitProcessor /\ [][NextProcessor]_vars

(***************************************************************************)
(* SpecRun: the enhanced command line on one directory, run after run: a    *)
(* run is interrupted or completes, and the next one continues the paused   *)
(* task or starts a new one.                                                *)
(***************************************************************************)
InitRun ==
    /\ TaskIdle
    /\ VendorIdle
    /\ CliIdle
    /\ ContentIdle
    /\ FileIdle
    /\ d_exists = TRUE
    /\ d_files \in Walks
    /\ file_extensions = None
    /\ callbacks = FALSE
    /\ d_next = 0
    /\ stats = NoStats
    /\ visits = <<>>
    /\ cb_calls = <<>>
    /\ d_status = "returned"
    /\ ModelsIdle
    /\ ConfigIdle
    /\ TemplateIdle
    /\ RouteIdle
    /\ AnthropicIdle
    /\ ParseIdle
    /\ ProcessorIdle
    /\ RunIdle
    /\ ServerIdle
    /\ ExtractIdle

NextRun ==
    \/ \E answer \in BOOLEAN :
          /\ run_count < MaxRuns
          /\ process_files_directory(answer)
          /\ UNCHANGED notRun
    \/ run_process_directory /\ UNCHANGED notRun
    \/ run_skip_file /\ UNCHANGED notRun
    \/ \E outcome \in Outcomes : run_process_file(outcome) /\ UNCHANGED notRun
    \/ run_complete /\ UNCHANGED notRun
    \/ run_interrupt /\ UNCHANGED notRun

SpecRun == InitRun /\ [][NextRun]_vars

(***************************************************************************)
(* SpecCheckpoint: one task from create_task on, its calls in any order     *)
(* while time passes, and managers built on the directory that load the     *)
(* latest task.                                                             *)
(***************************************************************************)
InitCheckpoint == InitProgress

NextCheckpoint ==
    \/ CanCreate(1) /\ create_task("in_dir") /\ UNCHANGED notTask
    \/ \E ok \in BOOLEAN, ticks \in 0..MaxCallTicks :
          /\ CanProgress(ok, MaxSaved, MaxFailed)
          /\ CanPass(ticks)
          /\ update_progress(ok, ticks)
          /\ UNCHANGED notTask
    \/ CanSkip(MaxSkipped) /\ skip_file /\ UNCHANGED notTask
    \/ complete_task /\ UNCHANGED notTask
    \/ fail_task /\ UNCHANGED notTask
    \/ pause_task /\ UNCHANGED notTask
    \/ resume_task /\ UNCHANGED notTask
    \/ CanPass(1) /\ Tick /\ UNCHANGED notTask
    \/ TaskManager_init /\ UNCHANGED notTask
    \/ load_latest_task /\ UNCHANGED notTask

SpecCheckpoint == InitCheckpoint /\ [][NextCheckpoint]_vars

(***************************************************************************)
(* SpecConcurrent: the server started on the default configuration; each   *)
(* of its two threads handles one request that writes the configuration,   *)
(* the steps of the two in any order.                                       *)
(***************************************************************************)
InitConcurrent ==
    /\ TaskIdle
    /\ VendorIdle
    /\ CliIdle
    /\ ContentIdle
    /\ DirIdle
    /\ FileIdle
    /\ ModelsIdle
    /\ ConfigIdle
    /\ TemplateIdle
    /\ RouteIdle
    /\ AnthropicIdle
    /\ ParseIdle
    /\ ProcessorIdle
    /\ RunIdle
    /\ ServerStarted(default_config)
    /\ ExtractIdle

NextConcurrent ==
    \/ \E t \in Threads, body \in ServerBodies :
          put_config(t, body) /\ UNCHANGED notServer
    \/ \E t \in Threads, key \in ServerKeys, value \in ServerValues :
          put_config_value(t, key, value) /\ UNCHANGED notServer
    \/ \E t \in Threads : update_config_save(t) /\ UNCHANGED notServer
    \/ \E t \in Threads : save_config_open(t) /\ UNCHANGED notServer
    \/ \E t \in Threads, whole \in BOOLEAN :
          save_config_dump(t, whole) /\ UNCHANGED notServer
    \/ \E t \in Threads : save_config_assign(t) /\ UNCHANGED notServer

SpecConcurrent == InitConcurrent /\ [][NextConcurrent]_vars

(***************************************************************************)
(* SpecServer: the server started on the default configuration or on one   *)
(* with an api_key; requests are handled one after another by one thread:  *)
(* PUT /api/config/, PUT /api/config/<key> and POST /api/prompts/process.   *)
(***************************************************************************)
InitServer ==
    /\ TaskIdle
    /\ VendorIdle
    /\ CliIdle
    /\ ContentIdle
    /\ DirIdle
    /\ FileIdle
    /\ ModelsIdle
    /\ ConfigIdle
    /\ TemplateIdle
    /\ RouteIdle
    /\ AnthropicIdle
    /\ ParseIdle
    /\ ProcessorIdle
    /\ RunIdle
    /\ \E cfg \in {default_config,
                    bind(default_config, << <<"api_key">> >>, "ck")} :
          ServerStarted(cfg)
    /\ ExtractIdle

NextServer ==
    \/ \E body \in ServerBodies : put_config(1, body) /\ UNCHANGED notServer
    \/ \E key \in ServerKeys, value \in ServerValues :
          put_config_value(1, key, value) /\ UNCHANGED notServer
    \/ update_config_save(1) /\ UNCHANGED notServer
    \/ save_config_open(1) /\ UNCHANGED notServer
    \/ save_config_dump(1, TRUE) /\ UNCHANGED notServer
    \/ save_config_assign(1) /\ UNCHANGED notServer
    \/ next_request(1) /\ UNCHANGED notServer
    \/ \E given_key \in {"", "k"}, given_model \in {"", "m"} :
          process_content_values(given_key, given_model) /\ UNCHANGED notServer

SpecServer == InitServer /\ [][NextServer]_vars

(***************************************************************************)
(* SpecExtract: process_content of a processor with any template of a few   *)
(* pieces, on a content.                                                    *)
(***************************************************************************)
InitExtract ==
    /\ TaskIdle
    /\ VendorIdle
    /\ CliIdle
    /\ ContentIdle
    /\ DirIdle
    /\ FileIdle
    /\ ModelsIdle
    /\ ConfigIdle
    /\ TemplateIdle
    /\ RouteIdle
    /\ AnthropicIdle
    /\ ParseIdle
    /\ ProcessorIdle
    /\ RunIdle
    /\ ServerIdle
    /\ ExtractIdle

NextExtract ==
    \E template \in Templates, content \in {<<>>, <<"text">>} :
        process_content_messages(template, content) /\ UNCHANGED notExtract

SpecExtract == InitExtract /\ [][NextExtract]_vars

(***************************************************************************)
(* Claims about the task manager.                                           *)
(***************************************************************************)
AllowedTransitions ==
    {<<"running", "paused">>, <<"running", "completed">>,
     <<"running", "failed">>, <<"paused", "running">>}

SameTask ==
    /\ current_task # None
    /\ current_task' # None
    /\ Get(current_task').task_id = Get(current_task).task_id

\* C1: every change of a task's status is running->paused, running->completed,
\* running->failed or paused->running; a completed or failed task never changes
\* status again, and a paused task becomes completed or failed only through
\* running.
C1_StatusTransitions ==
    [][(SameTask /\ Get(current_task').status # Get(current_task).status)
        => <<Get(current_task).status, Get(current_task').status>>
              \in AllowedTransitions]_vars

\* The checkpoint load_latest_task selects: load_latest_task writes no file, so
\* after the call the directory is the one the call read.
Selected == checkpoint_files(checkpoints)[1]

\* The --resume run has made its load_latest_task and nothing after it.
ResumeLoaded == args = "resume" /\ last_call.op = "load_latest_task"

\* The checkpoint that load selected is the one a directory run wrote when the
\* user interrupted it.
PausedDirectoryRun ==
    /\ checkpoint_files(checkpoints) # <<>>
    /\ Selected.valid
    /\ Selected.data.status = "paused"
    /\ isdir(Selected.data.input_path)

\* C2: when a directory run was interrupted, so that its task is paused and
\* checkpointed, and that checkpoint is the most recently modified one, a later
\* run with --resume takes the task for resumable and goes on to process its
\* input path; it does not report that there is no task to resume.
C2_ResumeAfterInterrupt ==
    (ResumeLoaded /\ PausedDirectoryRun)
        => /\ message # "no_resumable_task"
           /\ cli_pc = "collect" \/ message = "no_api_key"

Loaded == last_call.op = "load_latest_task"

\* C3: when the checkpoint load_latest_task selects is paused, the call returns
\* that task with status running; and load_latest_task never returns a task whose
\* status is completed or failed: when the selected checkpoint is completed or
\* failed it returns None and leaves no current task.
C3_LoadLatestStatus ==
    Loaded =>
        /\ last_call.task # None =>
              Get(last_call.task).status \notin {"completed", "failed"}
        /\ (/\ checkpoint_files(checkpoints) # <<>>
            /\ Selected.valid
            /\ Selected.data.status = "paused")
           => /\ last_call.task # None
              /\ Get(last_call.task).task_id = Selected.task_id
              /\ Get(last_call.task).status = "running"
              /\ current_task = last_call.task
        /\ (/\ checkpoint_files(checkpoints) # <<>>
            /\ Selected.valid
            /\ Selected.data.status \in {"completed", "failed"})
           => /\ last_call.task = None
              /\ current_task = None

\* A paused checkpoint written by pause_task is loaded, and comes back running.
C3_Witness ==
    /\ Loaded
    /\ checkpoint_files(checkpoints) # <<>>
    /\ Selected.task_id > 0
    /\ Selected.data.status = "paused"
    /\ last_call.task # None
    /\ Cardinality({checkpoints[i].data.status : i \in 1..Len(checkpoints)}) > 1

\* The parseable checkpoints whose status is running or paused, most recent first.
Unfinished(f) == f.valid /\ f.data.status \in {"running", "paused"}

\* C4: whenever the directory holds a checkpoint whose status is running or
\* paused, load_latest_task returns the most recently modified of them, also
\* when a failed checkpoint was modified more recently.
C4_LatestUnfinished ==
    (Loaded /\ SelectSeq(checkpoints, Unfinished) # <<>>)
        => /\ last_call.task # None
           /\ Get(last_call.task).task_id =
                  SelectSeq(checkpoints, Unfinished)[1].task_id

Updated == last_call.op = "update_progress" /\ last_call.task # None

\* C5: update_progress persists a checkpoint on every call after which the
\* processed count is a multiple of 10, and on every call made more than 30
\* seconds after the task's last persisted checkpoint.
C5_CheckpointCadence ==
    Updated =>
        ((\/ Get(last_call.task).processed % 10 = 0
          \/ /\ last_call.ckpt # None
             /\ last_call.at - Get(last_call.ckpt) > 30)
         => last_call.saved)

\* C6: stats.processed = stats.success + stats.failed in every state of a task
\* created by create_task, whatever calls it has taken.
C6_ProcessedIsSuccessPlusFailed ==
    current_task # None =>
        Get(current_task).processed =
            Get(current_task).success + Get(current_task).failed

\* A task that has counted successes and a failure, and was paused since.
C6_Witness ==
    /\ current_task # None
    /\ Get(current_task).success >= 2
    /\ Get(current_task).failed >= 1
    /\ Get(current_task).skipped >= 1
    /\ Get(current_task).status = "paused"

(***************************************************************************)
(* Claims about the vendor calls.                                           *)
(***************************************************************************)
Ended == v_pc = "done"

\* C7: whatever the attempts give, a vendor call issues at most max_retries + 1
\* requests, it ends by returning a reply or by raising a ProcessingError, and it
\* does not stop short of its end.
C7_BoundedRetries ==
    /\ requests <= max_retries + 1
    /\ Ended => v_result.kind \in {"reply", "ProcessingError"}
    /\ ~Ended => ENABLED NextVendor

\* What holds of C7 for the budgets that allow a first attempt.
RetryBudgetHolds == max_retries >= 0 => C7_BoundedRetries

\* The cap of the wait after a failure of this kind.
CapAfter(cause) == IF cause = "timeout" THEN 30 ELSE 60

HttpWaits == <<6, 12, 24, 48, 60, 60>>

\* C8: before its n-th retry a vendor call sleeps min(retry_interval * 2^n, cap)
\* seconds, cap being 60 after a retryable status or a connection error and 30
\* after a timeout; with retry_interval = 3 the waits after retryable statuses
\* are 6, 12, 24, 48, 60, 60, ...
C8_Backoff ==
    /\ Len(sleeps) = current_retry
    /\ \A n \in 1..Len(sleeps) :
          /\ sleeps[n].wait =
                Min(retry_interval * Pow2(n), CapAfter(sleeps[n].cause))
          /\ (retry_interval = 3 /\ sleeps[n].cause = "status") =>
                sleeps[n].wait = IF n <= 6 THEN HttpWaits[n] ELSE 60

\* Six retries of a call with retry_interval 3, of all three kinds, the fourth
\* after a timeout (30 s) and the fifth after a status (60 s).
C8_Witness ==
    /\ retry_interval = 3
    /\ Len(sleeps) = 6
    /\ sleeps[4].cause = "timeout"
    /\ sleeps[5].cause = "status"
    /\ sleeps[6].cause = "connection"
    /\ sleeps[4].wait = 30
    /\ sleeps[5].wait = 60

Attempted == requests' = requests + 1

Raised == v_pc' = "done" /\ v_result'.kind = "ProcessingError"

Retried ==
    /\ v_pc' = "loop"
    /\ current_retry' = current_retry + 1
    /\ Len(sleeps') = Len(sleeps) + 1

\* C9: a response whose status is neither 200 nor one of 429, 500, 502, 503, 504,
\* and a failure that is neither a timeout nor a connection error, make the call
\* raise a ProcessingError at once, with no sleep; a status of 429, 500, 502, 503
\* or 504 is retried exactly when fewer than max_retries retries have been made,
\* and raises otherwise.  After the raise nothing more is requested.
C9_RetryOrRaise ==
    [][/\ Attempted =>
            /\ (response'.kind = "status" /\ response'.status \notin RetryableStatus)
                   => (Raised /\ sleeps' = sleeps)
            /\ response'.kind \in {"bad_body", "exception"}
                   => (Raised /\ sleeps' = sleeps)
            /\ (response'.kind = "status" /\ response'.status \in RetryableStatus)
                   => IF current_retry < max_retries
                      THEN Retried
                      ELSE (Raised /\ sleeps' = sleeps)
       /\ Ended => requests' = requests]_vars

\* A 503 is retried, and the 404 that follows raises with one retry made.
C9_Witness ==
    /\ Ended
    /\ v_result.kind = "ProcessingError"
    /\ response.kind = "status"
    /\ response.status = 404
    /\ requests = 2
    /\ Len(sleeps) = 1
    /\ sleeps[1].cause = "status"
    /\ max_retries = 2

\* C10: for each of the three providers, when an attempt receives a 200 with a
\* well-formed body the call returns the first choice's message content and
\* raises no ProcessingError, on the first attempt and after retries.
C10_ReplyReturned ==
    (Ended /\ response.kind = "ok")
        => /\ v_result.kind = "reply"
           /\ v_result.reply = response.content

(***************************************************************************)
(* Claims about process_content, process_file and process_directory.        *)
(***************************************************************************)
\* The provider id the claim reads off an identifier: what stands before its
\* first '/', and deepseek when it holds none.
HasSlash(id) == \E i \in 1..Len(id) : id[i] = "/"

ProviderIs(id, p) ==
    IF HasSlash(id)
    THEN /\ Len(id) >= 2
         /\ id[1] = p
         /\ id[2] = "/"
    ELSE p = "deepseek"

Supported(id) == \E p \in {"openai", "openrouter", "deepseek"} : ProviderIs(id, p)

\* C11: when the model identifier parses to a provider id other than openai,
\* openrouter and deepseek, process_content raises a ProcessingError and no
\* request is made; for the three ids the matching vendor call, and no other,
\* is the one _call_model_api invokes, an identifier without '/' going to
\* deepseek.
C11_Dispatch ==
    /\ ~Supported(model) =>
          /\ calls = <<>>
          /\ requests = 0
          /\ c_pc = "done" => c_result.kind = "ProcessingError"
    /\ \A p \in {"openai", "openrouter", "deepseek"} :
          ProviderIs(model, p) =>
             /\ calls \in {<<>>, <<p>>}
             /\ c_pc = "vendor" => calls = <<p>>
             /\ (c_pc = "done" /\ calls = <<>>) => c_result.cause = "template"
             /\ requests > 0 => calls = <<p>>

\* An identifier without '/' that is none of the three names: the deepseek call
\* was made, sent a request and its reply came back.
C11_Witness ==
    /\ model = <<"x">>
    /\ c_pc = "done"
    /\ calls = <<"deepseek">>
    /\ requests > 0
    /\ c_result.kind = "reply"

Raising == {"read_error", "content_error", "write_error"}

\* C12: for an existing directory process_directory returns its statistics and
\* does not raise, whatever is raised while a file is handled; the files after
\* a failing file are still visited, and every failing file is in failed_files.
C12_NoFileAborts ==
    d_exists =>
        /\ d_status # "raised"
        /\ d_status = "returned" => Len(visits) = Len(d_files)
        /\ \A i \in 1..Len(visits) :
              visits[i] \in Raising =>
                 \E k \in 1..Len(stats.failed_files) : stats.failed_files[k] = i

\* What holds of C12 when no callback is given or no callback raises: the walk
\* is never left before its end.
WalkCompletes ==
    [][(d_status = "walking" /\ d_status' = "raised")
          => /\ callbacks
             /\ Len(cb_calls') > Len(cb_calls)]_vars

\* The filter in force: ['.md'] when no list is given; an empty list is no
\* filter.
FilterInForce == IF file_extensions = None THEN {".md"} ELSE Get(file_extensions)

MustSkip(file) ==
    \/ FilterInForce # {} /\ lower(file.ext) \notin FilterInForce
    \/ file.optimized

Count(kinds) == Cardinality({i \in 1..Len(visits) : visits[i] \in kinds})

\* a.md, b.txt, a_optimized.md
ExampleWalk ==
    <<WalkFile(FALSE, ".md"), WalkFile(FALSE, ".txt"), WalkFile(TRUE, ".md")>>

\* C13: every visited file adds one to exactly one of skipped and total; it is
\* skipped when a filter is in force and its lower-cased extension is not in
\* it, or when its name holds _optimized, and is counted and processed
\* otherwise; skipped + total is the number of files visited, and a.md, b.txt,
\* a_optimized.md under ['.md'] give total = 1 and skipped = 2.
C13_SkipOrCount ==
    /\ Len(visits) <= Len(d_files)
    /\ \A i \in 1..Len(visits) : (visits[i] = "skipped") <=> MustSkip(d_files[i])
    /\ stats.skipped = Count({"skipped"})
    /\ stats.total = Count(Outcomes)
    /\ stats.skipped + stats.total = Len(visits)
    /\ (d_files = ExampleWalk /\ file_extensions = Some({".md"})
          /\ d_status = "returned")
          => (stats.total = 1 /\ stats.skipped = 2)

\* The walk of the example has returned.
C13_Witness ==
    /\ d_files = ExampleWalk
    /\ file_extensions = Some({".md"})
    /\ d_status = "returned"
    /\ visits = <<"written", "skipped", "skipped">>

\* C14: process_file leaves the file as it was whenever it returns False or
\* raises a ProcessingError; when it returns True the file holds the non-empty
\* result process_content returned.
C14_FileFrame ==
    /\ f_result \in {"False", "ProcessingError"} => f_disk = f_before
    /\ f_result = "True" =>
          /\ f_local.result # None
          /\ Get(f_local.result) # ""
          /\ f_disk = f_local.result

\* What holds of C14: a file is changed only by the open for writing and what
\* follows it, and True is returned only with the result in the file.
FileFrameBeforeOpen ==
    /\ (f_pc \in {"exists", "process_content", "open"}) => f_disk = f_before
    /\ (f_result = "False") => f_disk = f_before
    /\ (f_result = "True") => f_disk = f_local.result /\ f_disk # Some("")

(***************************************************************************)
(* Claims about the model manager.                                          *)
(***************************************************************************)
Returned == mm_call.pc = "returned" /\ mm_call.provider_id \in Registered

AgeAtCall == mm_call.started - mm_call.before.timestamp

\* C15: a get_models call without force_refresh for a registered provider whose
\* cache entry is less than 86,400 seconds old returns the cached models and
\* does not call fetch_models; with an entry older than 86,400 seconds, or
\* with force_refresh, fetch_models is called.
C15_CacheExpiry ==
    /\ mm_call.pc \in {"fetch_models", "returned"}
       /\ mm_call.provider_id \in Registered
       /\ ~mm_call.force_refresh
       /\ mm_call.before.kind = "entry"
       /\ AgeAtCall < 86400
       => /\ mm_call.pc = "returned"
          /\ mm_call.fetch_calls = 0
          /\ mm_call.result = Some(mm_call.before.models)
    /\ Returned
       /\ \/ mm_call.force_refresh
          \/ mm_call.before.kind = "entry" /\ AgeAtCall > 86400
       => mm_call.fetch_calls = 1

\* an entry 86,399 seconds old has been served
C15_Witness ==
    /\ Returned
    /\ ~mm_call.force_refresh
    /\ mm_call.before.kind = "entry"
    /\ AgeAtCall = 86399
    /\ mm_call.fetch_calls = 0
    /\ mm_call.result = Some(<<"model">>)

\* an entry 86,401 seconds old has been refreshed
Refreshed ==
    /\ Returned
    /\ ~mm_call.force_refresh
    /\ mm_call.before.kind = "entry"
    /\ AgeAtCall = 86401
    /\ mm_call.fetch_calls = 1

\* C16: when fetch_models gives None, get_models returns the models of the
\* cache file, of whatever age, or the empty list without a cache file (or
\* with one that holds no entry), leaves the cache file as it was, and returns.
C16_FetchFailure ==
    Returned /\ mm_call.fetch_calls = 1 /\ mm_call.fetched = None
    => /\ mm_call.result =
            Some(IF mm_call.before.kind = "entry"
                 THEN mm_call.before.models ELSE <<>>)
       /\ cache[mm_call.provider_id] = mm_call.before

\* a failed refresh of an entry older than a day has served the entry
C16_Witness ==
    /\ Returned
    /\ mm_call.fetched = None
    /\ mm_call.fetch_calls = 1
    /\ mm_call.before.kind = "entry"
    /\ AgeAtCall > 86400
    /\ mm_call.result = Some(<<"model">>)
    /\ cache[mm_call.provider_id] = mm_call.before

\* C17: after a get_models call whose fetch gave R, the provider's cache entry
\* is R with a timestamp of the call, and R is returned; a following call
\* without force_refresh, less than 86,400 seconds after that fetch, returns R
\* and does not call fetch_models.
C17_CacheAfterFetch ==
    /\ Returned /\ mm_call.fetched # None
       => /\ mm_call.result = mm_call.fetched
          /\ cache[mm_call.provider_id].kind = "entry"
          /\ cache[mm_call.provider_id].models = Get(mm_call.fetched)
          /\ cache[mm_call.provider_id].timestamp >= mm_call.started
          /\ cache[mm_call.provider_id].timestamp <= current_time
    /\ mm_call.pc \in {"fetch_models", "returned"}
       /\ mm_call.provider_id \in Registered
       /\ ~mm_call.force_refresh
       /\ mm_call.prior # None
       /\ mm_call.started - Get(mm_call.prior).time < 86400
       => /\ mm_call.pc = "returned"
          /\ mm_call.fetch_calls = 0
          /\ mm_call.result = Some(Get(mm_call.prior).models)

\* The claim holds of the calls whose cache file was written whole, and a call
\* for one provider leaves the cache files of the others as they were.
CacheAfterStoredFetch ==
    Returned /\ mm_call.fetched # None /\ mm_call.write = "stored"
             /\ serializable(Get(mm_call.fetched))
    => /\ mm_call.result = mm_call.fetched
       /\ cache[mm_call.provider_id] =
             Entry(cache[mm_call.provider_id].timestamp, Get(mm_call.fetched))
       /\ cache[mm_call.provider_id].timestamp >= mm_call.started
       /\ cache[mm_call.provider_id].timestamp <= current_time

OthersUntouched ==
    [][\A p \in Registered : cache'[p] # cache[p] => mm_call.provider_id = p]_vars

(***************************************************************************)
(* Claims about the configuration manager.                                  *)
(***************************************************************************)
ConfigUpdated == cm_call.op = "update_config"

\* what a ConfigManager constructed now on the same file would hold
Fresh == load_config(cm_file, empty_config, default_config, "stored")

\* C18: for every key and value, from every configuration, update_config(k, v)
\* returns True, get_config_value(k) then returns v, and so does a fresh
\* ConfigManager on the same file.
C18_UpdateRoundTrip ==
    ConfigUpdated
    => /\ cm_call.returned = Some(TRUE)
       /\ lookup(cm_config, cm_call.key) = Some(cm_call.value)
       /\ ~Fresh.raised
       /\ lookup(Fresh.config, cm_call.key) = Some(cm_call.value)

\* The round trip holds of the calls that return True.
RoundTripWhenSaved ==
    ConfigUpdated /\ cm_call.returned = Some(TRUE)
    => /\ lookup(cm_config, cm_call.key) = Some(cm_call.value)
       /\ ~Fresh.raised
       /\ lookup(Fresh.config, cm_call.key) = Some(cm_call.value)

\* update_config("parameters.api_key", v) has returned True
Saved ==
    /\ ConfigUpdated
    /\ cm_call.key = <<"parameters", ".", "api_key">>
    /\ cm_call.returned = Some(TRUE)
    /\ cm_config[<< <<"parameters">>, <<"api_key">> >>] = "v"

ConfigLoaded == cm_call.op \in {"__init__", "load_config"}

\* C19: loading a file that is not valid JSON does not raise, leaves the
\* default configuration in memory and the file as it was.
C19_InvalidFileGivesDefault ==
    ConfigLoaded /\ cm_call.file.kind = "invalid"
    => /\ ~cm_call.raised
       /\ cm_config = default_config
       /\ cm_file = cm_call.file

\* Such a load leaves the file, and the configuration in memory, as they were.
InvalidFileLeftAlone ==
    ConfigLoaded /\ cm_call.file.kind = "invalid"
    => /\ cm_call.raised
       /\ cm_config = IF cm_call.op = "__init__" THEN empty_config
                      ELSE cm_call.config
       /\ cm_file = cm_call.file

(***************************************************************************)
(* Claims about the template manager.                                       *)
(***************************************************************************)
LoadCalled == t_call.op = "load_template"

\* C20: the active template is the name of the most recent load_template that
\* returned a text, and get_current_template gives the text that load
\* returned; a load with an empty or non-text name, of a name never loaded
\* whose file is missing, or whose read fails, returns None and changes
\* neither the cache nor the active template.
C20_ActiveIsLastLoaded ==
    /\ last_loaded = None => active_template = None /\ current_template = None
    /\ last_loaded # None
       => /\ active_template = Some(Get(last_loaded).name)
          /\ current_template = Some(Get(last_loaded).text)
    /\ LoadCalled /\ t_call.returned # None
       => last_loaded = Some([name |-> t_call.arg.name,
                              text |-> Get(t_call.returned)])
    /\ t_call.op = "get_current_template" => t_call.returned = current_template
    /\ LoadCalled
       /\ \/ ~t_call.arg.truthy
          \/ t_call.arg.type # "str"
          \/ t_call.cache[t_call.arg.name] = None
             /\ (t_call.files[t_call.arg.name] = None \/ ~t_call.read)
       => t_call.returned = None
    /\ LoadCalled /\ t_call.returned = None
       => templates_cache = t_call.cache /\ active_template = t_call.active

\* "standard" was loaded from its file, then "custom", then "standard" again
\* from the cache after its file was rewritten: "standard" is active with its
\* first text
C20_Witness ==
    /\ LoadCalled
    /\ t_call.arg = Str("standard")
    /\ t_call.active = Some("custom")
    /\ t_call.cache["standard"] = Some("A")
    /\ t_files["standard"] = Some("B")
    /\ t_call.returned = Some("A")
    /\ active_template = Some("standard")
    /\ current_template = Some("A")

(***************************************************************************)
(* Claims about the HTTP routes.                                            *)
(***************************************************************************)
Answered == r_response.code # 0

\* C21: a request with content and api_key, with standard.txt loadable and a
\* vendor answering 200 with reply R, gets the success envelope with result R,
\* not a 500 envelope.
C21_ProcessSucceeds ==
    /\ Answered
    /\ r_data # None
    /\ Get(r_data).content # None
    /\ Get(r_data).api_key # ""
    /\ r_env.standard
    /\ r_env.vendor # None
    => r_response = Envelope(200, "success", r_env.vendor, "")

\* Every request with content and a key gets a 500 envelope; one without
\* content, or without any key, gets a 400 envelope.
ProcessAlwaysFails ==
    Answered
    => IF r_data = None \/ Get(r_data).content = None
       THEN r_response = Envelope(400, "error", None, "content")
       ELSE IF Get(r_data).api_key = "" /\ r_env.api_key = ""
       THEN r_response = Envelope(400, "error", None, "api_key")
       ELSE r_response.code = 500

(***************************************************************************)
(* Claims about the exits of the enhanced command line.                     *)
(***************************************************************************)
Exited == cli_pc = "shell" /\ exit_code # None

Failures ==
    {"startup_failed", "no_last_task", "no_resumable_task", "no_api_key",
     "no_config", "errors", "processing_error", "unhandled_exception"}

\* C22: the command line exits 130 whenever the user interrupts it, also while
\* a directory is processed; it exits 0 only after a run that succeeded and 1
\* on every handled failure.
C22_ExitCodes ==
    Exited
    => /\ message \in {"paused", "interrupted"} => exit_code = Some(130)
       /\ exit_code = Some(0) => message \in {"done", "report"}
       /\ message \in Failures => exit_code = Some(1)

\* All of it holds but for the interrupt process_files catches while the
\* directory is processed, which exits 1.
ExitCodesElsewhere ==
    Exited
    => /\ message = "interrupted" <=> exit_code = Some(130)
       /\ message = "paused" => exit_code = Some(1)
       /\ exit_code = Some(0) <=> message \in {"done", "report"}
       /\ message \in Failures => exit_code = Some(1)

EndedWith(msg) ==
    Exited /\ message = msg /\ shell_env["OPENAI_API_KEY"] = Some("key")

\* while a run is going, its environment is the one it started with
EnvironKeptWhileRunning == cli_pc # "shell" => environ = shell_env

\* The newest checkpoint file of a task in a directory, <<>> when it has none.
Persisted(files, task_id) ==
    LET Mine(g) == g.task_id = task_id
        mine == SelectSeq(files, Mine)
    IN  IF mine = <<>> THEN None ELSE Some(mine[1])

\* The run ends in this step while its TaskManager holds a task, one that
\* create_task made or load_latest_task returned.
ExitsWithTask == cli_pc # "shell" /\ cli_pc' = "shell" /\ current_task # None

\* What the directory says of that task once the run has ended.
StatusAtExit ==
    Get(Persisted(checkpoints', Get(current_task).task_id)).data.status

\* C24: when a run that created or loaded a task exits, on any path, the
\* status in the task's newest checkpoint file is not running: it is
\* completed, failed or paused.
C24_NotRunningAtExit ==
    [][ExitsWithTask => StatusAtExit \in {"completed", "failed", "paused"}]_vars

\* Every exit but the one through main's except KeyboardInterrupt leaves the
\* task completed, failed or paused.
NotRunningElsewhere ==
    [][ExitsWithTask /\ message' # "interrupted"
           => StatusAtExit \in {"completed", "failed", "paused"}]_vars

\* What fetch_models returned for a 200 response, and the entries it was given.
Listed == Get(a_models)

Given == IF Get(a_response).json = None THEN <<>> ELSE Get(Get(a_response).json)

Shaped == a_response # None /\ Get(a_response).status_code = 200

HowMany(list, Test(_)) == Len(SelectSeq(list, Test))

IsSonnet(d) == d.id = Sonnet

NotSynthesized(d) == d # synthesized

HasSonnet(entry) == entry.name = Some(Sonnet)

\* the shaped list holds the synthesized descriptor exactly when the response
\* has no entry named claude-3-7-sonnet, once and as its last element
SynthesizedWhenMissing ==
    IF \E i \in 1..Len(Given) : HasSonnet(Given[i])
    THEN /\ \A i \in 1..Len(Listed) : Listed[i] # synthesized
         /\ HowMany(Listed, IsSonnet) = HowMany(Given, HasSonnet)
    ELSE /\ HowMany(Listed, IsSonnet) = 1
         /\ Listed[Len(Listed)] = synthesized

\* C25: for every listing response, the shaped list has exactly one
\* descriptor with id claude-3-7-sonnet when the response has none (the
\* synthesized one, appended) and no synthesized one when the response has
\* it; every other entry of the response is there, in order.
C25_EveryEntryKept ==
    Shaped =>
        /\ SynthesizedWhenMissing
        /\ LET kept == SelectSeq(Listed, NotSynthesized)
           IN  /\ Len(kept) = Len(Given)
               /\ \A i \in 1..Len(Given) : kept[i].id = Get(Given[i].name)

\* C25, amended: the same, but the entries that are there, in order, are the
\* entries of the response that have a non-empty name; one without a name,
\* or with an empty one, is dropped.
C25_NamedEntriesKept ==
    Shaped =>
        /\ SynthesizedWhenMissing
        /\ LET kept == SelectSeq(Listed, NotSynthesized)
               had == SelectSeq(Given, named)
           IN  /\ Len(kept) = Len(had)
               /\ \A i \in 1..Len(had) : kept[i] = descriptor(had[i])

\* a response with two named entries around one without a name, none of them
\* claude-3-7-sonnet, has been shaped
C25_Witness ==
    /\ Shaped
    /\ Len(Given) = 3
    /\ Given[1].name = Some("claude-3-opus")
    /\ Given[2].name = None
    /\ Given[3].name = Some("claude-3-opus")
    /\ Len(Listed) = 3

\* a response that has claude-3-7-sonnet comes back without a synthesized entry
SonnetGiven ==
    /\ Shaped
    /\ \E i \in 1..Len(Given) : HasSonnet(Given[i])
    /\ Len(Listed) = Len(Given)

Parsed == p_call.returned # None

\* C26: parse_model_id splits an identifier at its first '/': the provider
\* holds no '/', and provider, '/' and name, put together, are the identifier
\* (a/b/c gives a and b/c); an identifier without '/' gives deepseek and the
\* identifier.
C26_SplitAtFirstSlash ==
    Parsed =>
        LET id == p_call.model_id
            provider_id == Get(p_call.returned)[1]
            model_name == Get(p_call.returned)[2]
        IN  IF HasSlash(id)
            THEN /\ ~HasSlash(provider_id)
                 /\ provider_id \o <<"/">> \o model_name = id
            ELSE /\ provider_id = <<"deepseek">>
                 /\ model_name = id

\* an identifier with two '/' was parsed: the second one stays in the name
C26_Witness ==
    /\ p_call.model_id = <<"openai", "/", "/">>
    /\ p_call.returned = Some(<< <<"openai">>, <<"/">> >>)

\* an identifier without '/' was parsed
NoSlashParsed ==
    /\ p_call.model_id = <<"x">>
    /\ p_call.returned = Some(<< <<"deepseek">>, <<"x">> >>)

\* The vendor call ended by raising for a response with a status other than
\* 200: the status was not one that is retried, or no retry was left.
RaisedForStatus ==
    /\ v_pc = "done"
    /\ response.kind = "status"
    /\ v_result.kind = "ProcessingError"

Carried == {"status_code", "response", "error_type", "request_id"}

\* C27: for each of the three vendors, the ProcessingError raised for a
\* response with a status other than 200 that is not retried carries, in its
\* details, the status code, the response body, the error type and the
\* request id.
C27_ErrorDetails == RaisedForStatus => Carried \subseteq v_result.details

\* The deepseek call carries them, with the error type of the status.
DeepseekErrorDetails ==
    (RaisedForStatus /\ provider = "deepseek") =>
        /\ Carried \subseteq v_result.details
        /\ v_result.error_type = error_type(response.status)

\* The openai and openrouter calls carry the response body and nothing else.
OthersCarryResponseOnly ==
    (RaisedForStatus /\ provider # "deepseek") =>
        v_result.details = {"response"}

\* Whether load_template, called by a new manager, gives a text for the name:
\* its file is there, can be read and is not empty.
Loadable(call, name) ==
    /\ call.files[name] # None
    /\ call.files[name] # Some("")
    /\ name \in call.readable

Constructed == pp_call.op = "__init__" /\ ~pp_call.raised

SetRefused == pp_call.op = "set_template" /\ pp_call.returned = "False"

\* The constructor falls back on standard: it raises only when standard gives
\* no text, and a processor built with a name that gives no text has the
\* text of standard, and standard for its active template.
ConstructorFallsBack ==
    /\ (pp_call.op = "__init__" /\ pp_call.raised)
          => ~Loadable(pp_call, "standard")
    /\ (Constructed /\ (~valid_name(pp_call.arg)
                          \/ ~Loadable(pp_call, pp_call.arg.name)))
          => /\ Loadable(pp_call, "standard")
             /\ system_template = pp_call.files["standard"]
             /\ active_template = Some("standard")

\* C28: a processor built with a template name that cannot be loaded has the
\* text of standard and standard for active template, and the constructor
\* raises only when standard cannot be loaded either; a later set_template
\* that returns False has changed neither the template text nor the active
\* template name.
C28_TemplateFallback ==
    /\ ConstructorFallsBack
    /\ SetRefused => /\ system_template = pp_call.text
                     /\ active_template = pp_call.active

\* set_template with a name that was never loaded and has no file, or no
\* readable one, or that is no name, changes nothing.
SetRefusedWithoutFile ==
    (SetRefused /\ (~valid_name(pp_call.arg)
                      \/ /\ templates_cache[pp_call.arg.name] = None
                         /\ \/ pp_call.files[pp_call.arg.name] = None
                            \/ pp_call.arg.name \notin pp_call.readable))
        => /\ system_template = pp_call.text
           /\ active_template = pp_call.active

\* set_template returned False and the active template name is another one
SetRefusedChangedActive ==
    /\ SetRefused
    /\ system_template = pp_call.text
    /\ active_template # pp_call.active

\* A step that is a call of TaskManager.skip_file.
SkipStep == last_call'.op = "skip_file" /\ now' = now

OtherFields == DOMAIN TaskState_init(0, "in_dir", 0) \ {"skipped"}

SkippedWithoutTask ==
    /\ last_call.op = "skip_file"
    /\ current_task = None
    /\ checkpoints = <<>>

\* The tasks complete_task has been called for: those that have a file
\* <task_id>_completed.json.
CompletedIds ==
    {checkpoints[i].task_id : i \in {j \in 1..Len(checkpoints) : checkpoints[j].completed}}

LoadReturned == last_call.op = "load_latest_task" /\ last_call.task # None

\* C30: once complete_task has been called for a task, no load_latest_task,
\* by the same manager or a new one on the directory, returns a task of that
\* task_id.
C30_CompletedNeverLoaded ==
    LoadReturned => Get(last_call.task).task_id \notin CompletedIds

\* What load_latest_task returns is never read from a *_completed.json, and
\* never has the status completed or failed.
LoadedFromPlainFile ==
    LoadReturned =>
        /\ ~Selected.completed
        /\ Selected.task_id = Get(last_call.task).task_id
        /\ Get(last_call.task).status = "running"

\* process_directory has walked the directory and returned its statistics.
WalkReturned == d_status = "returned" /\ d_next > 0

\* The files of the walk that were counted, and the file_processed
\* invocations made for one of them.
Counted == {i \in 1..Len(visits) : visits[i] # "skipped"}

Invocations(i) ==
    {k \in 1..Len(cb_calls) : cb_calls[k][1] = i /\ cb_calls[k][2] \in BOOLEAN}

\* C33: when process_directory returns, total = success + failed and failed
\* is the length of failed_files; file_processed was invoked exactly once for
\* every counted file, also when an invocation of it raised.
C33_CountedOnce ==
    WalkReturned =>
        /\ stats.total = stats.success + stats.failed
        /\ stats.failed = Len(stats.failed_files)
        /\ callbacks => \A i \in Counted : Cardinality(Invocations(i)) = 1

\* What holds of every walk: the total is the number of counted files, failed
\* is the length of failed_files, and the counts add up unless a file was
\* counted as a success and then, its callback having raised, as a failure.
CountsWithoutRaise ==
    /\ stats.total = Cardinality(Counted)
    /\ stats.failed = Len(stats.failed_files)
    /\ stats.total <= stats.success + stats.failed
    /\ (\A i \in Counted : Cardinality(Invocations(i)) <= 1)
          => stats.total = stats.success + stats.failed

NoPathTwice(list) ==
    \A i, j \in 1..Len(list) : list[i] = list[j] => i = j

\* C31: in a run that continues an unfinished directory task, no file listed
\* in the task's processed_files is processed again: processed_files holds no
\* path twice and stats.processed is at most stats.total.
C31_NothingProcessedAgain ==
    (run_task # None /\ run_continued) =>
        /\ NoPathTwice(Get(run_task).processed_files)
        /\ Get(run_task).processed <= Get(run_task).total

\* A run on a task of its own processes no file twice, and a continued run
\* processes every counted file of the walk, whatever the task lists.
NewTaskProcessesOnce ==
    (run_task # None /\ ~run_continued) =>
        NoPathTwice(Get(run_task).processed_files)

ContinuedRunWalksAll ==
    (run_task # None /\ run_continued /\ Get(run_task).status = "completed") =>
        stats.total = Cardinality({i \in 1..Len(d_files) :
                                      /\ ~skipped_by_filter(d_files[i], None)
                                      /\ ~skipped_by_name(d_files[i])})

\* An uninterrupted run has reached complete_task.
CompletedAtOnce ==
    /\ run_task # None
    /\ ~run_continued
    /\ Get(run_task).status = "completed"

\* C32: when an uninterrupted directory run reaches complete_task,
\* stats.processed equals stats.total: the files the command line counted are
\* the files process_directory reported through file_processed, whatever
\* extensions and _optimized names the directory has.
C32_ProcessedIsTotal ==
    CompletedAtOnce => Get(run_task).processed = Get(run_task).total

\* What the two counts are: every file without _optimized in its name for the
\* command line, and those of them with the extension .md for
\* process_directory; they agree when the directory has no other file.
CountsOfCompletedRun ==
    CompletedAtOnce =>
        LET plain == {i \in 1..Len(d_files) : ~d_files[i].optimized}
            md == {i \in plain : lower(d_files[i].ext) = ".md"}
        IN  /\ Get(run_task).total = Cardinality(plain)
            /\ Get(run_task).processed = Cardinality(md)
            /\ Get(run_task).processed = stats.total

C35_FailedUpdateLeavesConfig ==
    ConfigUpdated /\ cm_call.returned = Some(FALSE)
    => cm_config = cm_call.config

\* whether the key path of the last update_config could not be written
KeyPathRefused == assign(cm_call.config, cm_call.key, cm_call.value).raised

\* An update whose key path cannot be written returns False and leaves the
\* configuration in memory and the file as they were.
RefusedKeyPathLeavesConfig ==
    ConfigUpdated /\ KeyPathRefused
    => /\ cm_call.returned = Some(FALSE)
       /\ cm_config = cm_call.config
       /\ cm_file = cm_call.file

\* An update whose key path can be written and whose save fails returns False
\* with the assignment made in memory.
FailedSaveKeepsAssignment ==
    ConfigUpdated /\ ~KeyPathRefused /\ cm_call.returned = Some(FALSE)
    => /\ cm_config = assign(cm_call.config, cm_call.key, cm_call.value).config
       /\ cm_config # cm_call.config
          \/ lookup(cm_call.config, cm_call.key) = Some(cm_call.value)
       /\ cm_file.kind = "json" => cm_file = cm_call.file

AllReturned == \A t \in Threads : sv_req[t].pc = "returned"

\* the configuration a request makes of `cfg` when nothing else runs
effect(req, cfg) ==
    IF req.kind = "put" THEN req.body
    ELSE assign(cfg, req.key, req.value).config

\* what the two requests make of the configuration the server started on,
\* one after the other, in either order
SerialOutcomes ==
    {effect(sv_req[2], effect(sv_req[1], default_config)),
     effect(sv_req[1], effect(sv_req[2], default_config))}

\* C36: after two requests that write the configuration through the shared
\* ConfigManager have both returned, whatever the order of their steps, the
\* configuration in memory is what the file holds, and it is what the two
\* requests make of it one after the other: an update that succeeded is not
\* lost to both.
C36_ConcurrentWritesAgree ==
    AllReturned
    => /\ sv_file = JsonFile(sv_heap[sv_config])
       /\ sv_heap[sv_config] \in SerialOutcomes

\* Two requests of which the second began after the first had returned agree.
SerialWritesAgree ==
    AllReturned /\ ~sv_overlap
    => /\ sv_file = JsonFile(sv_heap[sv_config])
       /\ sv_heap[sv_config] \in SerialOutcomes

\* After two overlapping requests the file may hold a text that is no JSON.
OverlappingWritesKeepJson ==
    AllReturned /\ (\E t \in Threads : sv_req[t].returned = Some(TRUE))
    => sv_file.kind = "json"

\* After two overlapping requests that left a JSON file, memory may differ
\* from it.
MemoryIsFileWhenJson ==
    AllReturned /\ sv_file.kind = "json"
    => sv_file.config = sv_heap[sv_config]

Processed == sv_process # None

\* POST /process without api_key and model, after a PUT of the configuration
\* has succeeded
FallsBackAfterPut ==
    /\ Processed
    /\ Get(sv_process).after_put
    /\ Get(sv_process).given = [api_key |-> "", model |-> ""]

\* C37: once a PUT of the configuration has succeeded, a prompt-processing
\* request that omits api_key and model uses the values of the updated
\* configuration.
C37_FallbackIsUpdated ==
    FallsBackAfterPut
    => /\ Get(sv_process).api_key =
             config_value(Get(sv_process).config, <<"api_key">>, "")
       /\ Get(sv_process).model =
             config_value(Get(sv_process).config, <<"model">>, "openai/gpt-4.1")

\* The values a request falls back to are those of the file at server start.
FallbackIsStartValue ==
    Processed
    => /\ Get(sv_process).given.api_key = ""
          => Get(sv_process).api_key \in {"", "ck"}
       /\ Get(sv_process).given.model = ""
          => Get(sv_process).model = "anthropic/claude-3.7-sonnet"
       /\ sv_prompt_config \in {default_config,
                                 bind(default_config, << <<"api_key">> >>, "ck")}

\* A PUT that succeeded is in the memory of its own manager and in the file.
PutReachesFile ==
    (\A t \in Threads : sv_req[t].pc \in {"idle", "returned"}) /\ put_succeeded
    => sv_file = JsonFile(sv_heap[sv_config])

Temperature == << <<"parameters">>, <<"temperature">> >>

\* C38: after every sequence of load_config, save_config and update_config,
\* default_config is the built-in one: it holds temperature 0.7 and
\* max_tokens 1000, also after an update of parameters.temperature.
C38_DefaultsUnchanged ==
    /\ cm_default = default_config
    /\ cm_default[Temperature] = "0.7"
    /\ cm_default[<< <<"parameters">>, <<"max_tokens">> >>] = "1000"

\* The defaults of a manager that loaded its configuration from a file, or
\* whose "parameters" was bound anew, are the built-in ones.
DefaultsUnchangedUnlessShared ==
    [][~cm_shared /\ cm_call'.op # "__init__" => cm_default' = cm_default]_vars

\* The temperature of the defaults is the built-in one.
DefaultTemperatureKept == cm_default[Temperature] = "0.7"

\* Only what is under "parameters" changes in the defaults.
DefaultsOutsideParameters ==
    \A path \in DOMAIN default_config :
        ~IsPrefix(Parameters, path)
        => path \in DOMAIN cm_default /\ cm_default[path] = default_config[path]

(***************************************************************************)
(* Claims about the messages of a template.                                *)
(***************************************************************************)
Accepted == x_call.called /\ x_call.valid

\* C39: from every template validate_template accepts, process_content takes
\* a system message and a user message that are not empty, whatever the order
\* of the markers and whatever lies between them.
C39_AcceptedTemplateExtracts ==
    Accepted
    => /\ ~x_call.raised
       /\ x_call.system_msg # <<>>
       /\ x_call.user_msg # <<>>

\* whether something other than white space lies between the first system
\* marker and the next marker, and between the first user marker and the next
\* user marker
TextAfterMarkers ==
    LET t == x_call.template
        s == CHOOSE i \in 1..Len(t) :
                t[i] = SystemMarker /\ \A j \in 1..(i - 1) : t[j] # SystemMarker
        u == CHOOSE i \in 1..Len(t) :
                t[i] = UserMarker /\ \A j \in 1..(i - 1) : t[j] # UserMarker
    IN /\ \E i \in (s + 1)..Len(t) :
             /\ t[i] # " "
             /\ \A j \in (s + 1)..i : t[j] \notin {SystemMarker, UserMarker}
       /\ \E i \in (u + 1)..Len(t) :
             /\ t[i] # " "
             /\ \A j \in (u + 1)..i : t[j] # UserMarker

\* An accepted template gives both messages exactly when text follows each of
\* its first markers.
AcceptedExtractsWhenTextFollows ==
    Accepted => (~x_call.raised <=> TextAfterMarkers)

\* An extraction that does not raise gives two messages that are not empty.
ExtractedMessagesNotEmpty ==
    x_call.called /\ ~x_call.raised
    => x_call.system_msg # <<>> /\ x_call.user_msg # <<>>

====
